---- MODULE Spec2Model ----
(***************************************************************************)
(* Expense tracker REST API: the expense collection, the request          *)
(* validators of the expense routes and the five expense handlers         *)
(* (list, get by id, create, update, delete).                             *)
(*                                                                         *)
(* Representation.                                                         *)
(*  - A text value (title, notes) is kept run-length encoded as           *)
(*    [lead, text, core, trail]: `lead` leading blanks, then `core`       *)
(*    characters that start and end with a non-blank (their content is    *)
(*    named by `text`), then `trail` trailing blanks.                     *)
(*  - An amount arrives as its decimal text, a sequence of characters;    *)
(*    a Number is kept in thousandths (5 is 5000, 0.01 is 10).            *)
(*  - A Date is an integer instant; an ISO 8601 text of the request is    *)
(*    [iso |-> TRUE, at |-> instant], any other text [iso |-> FALSE].     *)
(*  - An ObjectId is a positive integer; MalformedId is a path parameter  *)
(*    that is not an ObjectId.                                            *)
(*  - A request body or a query is a function from the keys that are      *)
(*    present to their values.                                            *)
(***************************************************************************)
EXTENDS Integers, Sequences, FiniteSets, TLC

\* ------------------------------------------------------------------ bounds

\* Number of ObjectIds the store hands out (creates that succeed).
MaxExpenses == 3

\* Number of clock ticks; every successful create or update takes one.
MaxClock == 3

\* ------------------------------------------------------- program constants

TitleMaxLen == 200

NotesMaxLen == 500

\* 0.01, in thousandths.
MinAmount == 10

\* Mutant of the category labels: Transport is one more of them.
CategoriesWithTransport ==
    {"Food", "Transportation", "Transport", "Entertainment", "Healthcare", "Shopping",
     "Bills", "Education", "Travel", "Personal", "Other"}

Categories ==
    {"Food", "Transportation", "Entertainment", "Healthcare", "Shopping",
     "Bills", "Education", "Travel", "Personal", "Other"}

PaymentMethods ==
    {"Cash", "Credit Card", "Debit Card", "UPI", "Net Banking", "Other"}

Users == {"u1", "u2"}

Null == [null |-> TRUE]

MalformedId == 0

\* ------------------------------------------------------------------- text

Str(lead, text, core, trail) ==
    [lead |-> lead, text |-> text, core |-> core, trail |-> trail]

EmptyStr == Str(0, "", 0, 0)

\* String.prototype.trim / validator trim(): strips the blanks at both ends.
\* A text of blanks only has core = 0 and becomes the empty text.
Trim(s) ==
    IF s.core = 0 THEN EmptyStr ELSE [s EXCEPT !.lead = 0, !.trail = 0]

StrLen(s) == s.lead + s.core + s.trail

\* ------------------------------------------------------ decimal arithmetic

DigitVal ==
    [c \in {"0", "1", "2", "3", "4", "5", "6", "7", "8", "9"} |->
        CASE c = "0" -> 0 [] c = "1" -> 1 [] c = "2" -> 2 [] c = "3" -> 3
          [] c = "4" -> 4 [] c = "5" -> 5 [] c = "6" -> 6 [] c = "7" -> 7
          [] c = "8" -> 8 [] c = "9" -> 9]

IsDigit(c) == c \in DOMAIN DigitVal

RECURSIVE DigitsVal(_)
DigitsVal(s) ==
    IF s = <<>> THEN 0
    ELSE 10 * DigitsVal(SubSeq(s, 1, Len(s) - 1)) + DigitVal[s[Len(s)]]

HasSign(s) == Len(s) > 0 /\ s[1] \in {"-", "+"}

Unsigned(s) == IF HasSign(s) THEN Tail(s) ELSE s

DotAt(s) == {i \in 1..Len(s) : s[i] = "."}

IntDigits(s) ==
    LET u == Unsigned(s)
    IN  IF DotAt(u) = {} THEN u
        ELSE SubSeq(u, 1, (CHOOSE i \in DotAt(u) : TRUE) - 1)

FracDigits(s) ==
    LET u == Unsigned(s)
    IN  IF DotAt(u) = {} THEN <<>>
        ELSE SubSeq(u, (CHOOSE i \in DotAt(u) : TRUE) + 1, Len(u))

\* The first three fractional digits, in thousandths.
FracMilli(f) ==
    (IF Len(f) >= 1 THEN 100 * DigitVal[f[1]] ELSE 0)
  + (IF Len(f) >= 2 THEN 10 * DigitVal[f[2]] ELSE 0)
  + (IF Len(f) >= 3 THEN DigitVal[f[3]] ELSE 0)

\* validator.js isFloat's pattern, without the exponent part:
\* [-+]? digits* (. digits*)?
MatchesFloat(s) ==
    LET u == Unsigned(s)
    IN  /\ Cardinality(DotAt(u)) <= 1
        /\ \A i \in 1..Len(u) : u[i] = "." \/ IsDigit(u[i])

\* parseFloat of a text that matches the pattern, in thousandths.
ParseFloat(s) ==
    LET mag == 1000 * DigitsVal(IntDigits(s)) + FracMilli(FracDigits(s))
    IN  IF HasSign(s) /\ s[1] = "-" THEN 0 - mag ELSE mag

\* isFloat({ min: 0.01 })
IsFloatMin(s) ==
    /\ s \notin {<<>>, <<".">>, <<"-">>, <<"+">>}
    /\ MatchesFloat(s)
    /\ ParseFloat(s) >= MinAmount

\* toFloat()
ToFloat(s) == ParseFloat(s)

\* isISO8601()
IsISO8601(d) == d.iso

\* toDate()
ToDate(d) == d.at

\* isMongoId()
IsMongoId(id) == id # MalformedId

Has(b, k) == k \in DOMAIN b


\* ------------------------------------------------------------- validators

\* validateObjectId: param('id').isMongoId()
ValidateObjectId(id) == IF IsMongoId(id) THEN {} ELSE {"id"}

\* body('title') ... trim().notEmpty().isLength({ max: 200 })
TitleOk(b) ==
    /\ Has(b, "title")
    /\ StrLen(Trim(b.title)) > 0
    /\ StrLen(Trim(b.title)) <= TitleMaxLen

\* body('amount') ... isFloat({ min: 0.01 })
AmountOk(b) == Has(b, "amount") /\ IsFloatMin(b.amount)

\* body('category') ... isIn([...])
CategoryOk(b) == Has(b, "category") /\ b.category \in Categories

\* body('date').optional().isISO8601()
DateOk(b) == Has(b, "date") => IsISO8601(b.date)

\* body('notes').optional().trim().isLength({ max: 500 })
NotesOk(b) == Has(b, "notes") => StrLen(Trim(b.notes)) <= NotesMaxLen

\* body('paymentMethod').optional().isIn([...])
PaymentMethodOk(b) == Has(b, "paymentMethod") => b.paymentMethod \in PaymentMethods

\* The fields validateCreateExpense reports.
ValidateCreateExpense(b) ==
    {f \in {"title", "amount", "category", "date", "notes", "paymentMethod"} :
        CASE f = "title" -> ~TitleOk(b)
          [] f = "amount" -> ~AmountOk(b)
          [] f = "category" -> ~CategoryOk(b)
          [] f = "date" -> ~DateOk(b)
          [] f = "notes" -> ~NotesOk(b)
          [] f = "paymentMethod" -> ~PaymentMethodOk(b)}

\* The fields validateUpdateExpense reports: every rule is optional().
ValidateUpdateExpense(b) ==
    {f \in {"title", "amount", "category", "date", "notes", "paymentMethod"} :
        CASE f = "title" -> Has(b, "title") /\ ~TitleOk(b)
          [] f = "amount" -> Has(b, "amount") /\ ~AmountOk(b)
          [] f = "category" -> Has(b, "category") /\ ~CategoryOk(b)
          [] f = "date" -> ~DateOk(b)
          [] f = "notes" -> ~NotesOk(b)
          [] f = "paymentMethod" -> ~PaymentMethodOk(b)}

\* The sanitizers of both chains, applied to a body that passed them:
\* trim() on title and notes, toFloat() on amount, toDate() on date. Keys the
\* chains do not name stay as they came.
Sanitize(b) ==
    [k \in DOMAIN b |->
        CASE k = "title" -> Trim(b[k])
          [] k = "notes" -> Trim(b[k])
          [] k = "amount" -> ToFloat(b[k])
          [] k = "date" -> ToDate(b[k])
          [] OTHER -> b[k]]

\* handleValidationErrors
ValidationFailed(fields) ==
    [status |-> 400, message |-> "Validation failed", errors |-> fields]

\* ------------------------------------------------------------ Expense model

\* expenseSchema's validators: what Expense.create and expense.save check.
SchemaValid(doc) ==
    /\ doc.title # EmptyStr
    /\ StrLen(doc.title) <= TitleMaxLen
    /\ doc.amount >= MinAmount
    /\ doc.category \in Categories
    /\ StrLen(doc.notes) <= NotesMaxLen
    /\ doc.paymentMethod \in PaymentMethods

\* expenseSchema's setters: trim on title and notes.
SchemaCast(doc) ==
    [doc EXCEPT !.title = Trim(doc.title), !.notes = Trim(doc.notes)]

\* Mutant of FindOne: the query leaves out userId.
FindOneAnyOwner(s, id, uid) ==
    IF id \in DOMAIN s THEN s[id] ELSE Null

\* Expense.findOne({ _id: id, userId: uid })
FindOne(s, id, uid) ==
    IF id \in DOMAIN s /\ s[id].userId = uid THEN s[id] ELSE Null

AppError(message, statusCode) == [status |-> statusCode, message |-> message]

NotFound == AppError("Expense not found or unauthorized", 404)


\* -------------------------------------------------------------- collection

\* Date.prototype of an ISO 8601 text: new Date(text)
NewDate(d) == d.at

\* parseInt of a text of decimal digits
ParseInt(s) == DigitsVal(s)

\* Mutant of toFixed(2): toFixed(1), rounding to the nearest tenth.
ToFixed1(x) == ((x + 50) \div 100) * 100

\* Number.prototype.toFixed(2) read back by parseFloat, on a Number >= 0 kept
\* in thousandths: rounds to the nearest hundredth.
ToFixed2(x) == ((x + 5) \div 10) * 10

\* The filter object getAllExpenses builds from the query.
BuildFilter(uid, q) ==
    ("userId" :> uid)
    @@ (IF Has(q, "category") THEN ("category" :> q.category) ELSE <<>>)
    @@ (IF Has(q, "startDate") THEN ("$gte" :> NewDate(q.startDate)) ELSE <<>>)
    @@ (IF Has(q, "endDate") THEN ("$lte" :> NewDate(q.endDate)) ELSE <<>>)

\* A document matches a filter.
Matches(doc, filter) ==
    /\ doc.userId = filter.userId
    /\ Has(filter, "category") => doc.category = filter.category
    /\ Has(filter, "$gte") => doc.date >= filter["$gte"]
    /\ Has(filter, "$lte") => doc.date <= filter["$lte"]

\* Expense.find(filter)
Find(s, filter) == {s[i] : i \in {j \in DOMAIN s : Matches(s[j], filter)}}

\* Expense.countDocuments(filter)
CountDocuments(s, filter) == Cardinality(Find(s, filter))

\* d comes before e under sort({ [sortBy]: sortOrder }); documents with equal
\* keys come in the collection's natural order, the order of insertion.
SortsBefore(d, e, sortBy, sortOrder) ==
    \/ sortOrder * d[sortBy] < sortOrder * e[sortBy]
    \/ d[sortBy] = e[sortBy] /\ d._id < e._id

\* Query.sort
RECURSIVE Sort(_, _, _)
Sort(docs, sortBy, sortOrder) ==
    IF docs = {} THEN <<>>
    ELSE LET first == CHOOSE d \in docs :
                 \A e \in docs \ {d} : SortsBefore(d, e, sortBy, sortOrder)
         IN  <<first>> \o Sort(docs \ {first}, sortBy, sortOrder)

\* Mutant of skip and limit: the limit is taken before the skip.
LimitSkip(seq, skip, limitNum) ==
    SubSeq(seq, skip + 1, IF limitNum < Len(seq) THEN limitNum ELSE Len(seq))

\* Query.skip(skip).limit(limitNum), skip >= 0
SkipLimit(seq, skip, limitNum) ==
    SubSeq(seq, skip + 1, IF skip + limitNum < Len(seq) THEN skip + limitNum ELSE Len(seq))

\* expenses.reduce((sum, expense) => sum + expense.amount, 0)
RECURSIVE SumAmounts(_)
SumAmounts(seq) ==
    IF seq = <<>> THEN 0 ELSE seq[1].amount + SumAmounts(Tail(seq))

\* Math.ceil(a / b), a >= 0, b >= 1
Ceil(a, b) == (a + b - 1) \div b

\* ---------------------------------------------------------------- handlers

\* getAllExpenses: the response to GET /api/expenses?q by caller uid.
GetAllExpenses(s, uid, q) ==
    LET filter == BuildFilter(uid, q)
        sortBy == IF Has(q, "sortBy") THEN q.sortBy ELSE "date"
        sortOrder == IF Has(q, "order") /\ q.order = "asc" THEN 1 ELSE 0 - 1
        pageNum == IF Has(q, "page") THEN ParseInt(q.page) ELSE 1
        limitNum == IF Has(q, "limit") THEN ParseInt(q.limit) ELSE 0
        skip == IF limitNum # 0 THEN (pageNum - 1) * limitNum ELSE 0
        sorted == Sort(Find(s, filter), sortBy, sortOrder)
        expenses == IF limitNum # 0 THEN SkipLimit(sorted, skip, limitNum) ELSE sorted
        totalExpenses == CountDocuments(s, filter)
        totalAmount == SumAmounts(expenses)
    IN  IF skip < 0
        THEN AppError("Skip value must be non-negative", 500)
        ELSE [status |-> 200,
              message |-> "Expenses retrieved successfully",
              data |-> [expenses |-> expenses,
                        pagination |->
                            IF limitNum # 0
                            THEN [currentPage |-> pageNum,
                                  totalPages |-> Ceil(totalExpenses, limitNum),
                                  totalExpenses |-> totalExpenses,
                                  expensesPerPage |-> limitNum]
                            ELSE Null,
                        summary |-> [totalExpenses |-> totalExpenses,
                                     totalAmount |-> ToFixed2(totalAmount)]]]

\* Mutant of getExpenseById: another user's document is answered 403.
GetExpenseByIdForbidden(s, uid, id) ==
    IF id \in DOMAIN s /\ s[id].userId # uid THEN AppError("Forbidden", 403)
    ELSE IF id \notin DOMAIN s THEN NotFound
    ELSE [status |-> 200, message |-> "Expense retrieved successfully",
          data |-> s[id]]

\* getExpenseById: the response to GET /api/expenses/:id by caller uid.
GetExpenseById(s, uid, id) ==
    LET expense == FindOne(s, id, uid)
    IN  IF expense = Null THEN NotFound
        ELSE [status |-> 200, message |-> "Expense retrieved successfully",
              data |-> expense]

\* Mutant of createExpense: the body is spread over the document, so that a
\* userId in the body replaces the caller's.
CreateExpenseBodyOwner(s, uid, b, id, t) ==
    LET expense == SchemaCast(
            [_id |-> id,
             userId |-> IF Has(b, "userId") THEN b.userId ELSE uid,
             title |-> b.title,
             amount |-> b.amount,
             category |-> b.category,
             date |-> IF Has(b, "date") THEN b.date ELSE t,
             notes |-> IF Has(b, "notes") /\ b.notes # EmptyStr THEN b.notes ELSE EmptyStr,
             paymentMethod |-> IF Has(b, "paymentMethod") THEN b.paymentMethod ELSE "Other",
             createdAt |-> t,
             updatedAt |-> t])
    IN  [store |-> (id :> expense) @@ s,
         resp |-> [status |-> 201, message |-> "Expense created successfully",
                   data |-> expense]]

\* Mutant of createExpense: the date is always the time of the request.
CreateExpenseDateNow(s, uid, b, id, t) ==
    LET expense == SchemaCast(
            [_id |-> id,
             userId |-> uid,
             title |-> b.title,
             amount |-> b.amount,
             category |-> b.category,
             date |-> t,
             notes |-> IF Has(b, "notes") /\ b.notes # EmptyStr THEN b.notes ELSE EmptyStr,
             paymentMethod |-> IF Has(b, "paymentMethod") THEN b.paymentMethod ELSE "Other",
             createdAt |-> t,
             updatedAt |-> t])
    IN  [store |-> (id :> expense) @@ s,
         resp |-> [status |-> 201, message |-> "Expense created successfully",
                   data |-> expense]]

\* createExpense on a sanitized body: the store and the response after
\* POST /api/expenses by caller uid at instant t, the new document taking id.
CreateExpense(s, uid, b, id, t) ==
    LET expense == SchemaCast(
            [_id |-> id,
             userId |-> uid,
             title |-> b.title,
             amount |-> b.amount,
             category |-> b.category,
             date |-> IF Has(b, "date") THEN b.date ELSE t,
             notes |-> IF Has(b, "notes") /\ b.notes # EmptyStr THEN b.notes ELSE EmptyStr,
             paymentMethod |-> IF Has(b, "paymentMethod") THEN b.paymentMethod ELSE "Other",
             createdAt |-> t,
             updatedAt |-> t])
    IN  IF SchemaValid(expense)
        THEN [store |-> (id :> expense) @@ s,
              resp |-> [status |-> 201, message |-> "Expense created successfully",
                        data |-> expense]]
        ELSE [store |-> s, resp |-> AppError("Expense validation failed", 500)]

\* Mutant of allowedUpdates: the list also names userId and createdAt.
AllowedUpdatesWithIdentity ==
    {"title", "amount", "category", "date", "notes", "paymentMethod", "userId", "createdAt"}

\* const allowedUpdates = [...]
AllowedUpdates == {"title", "amount", "category", "date", "notes", "paymentMethod"}

\* Mutant of the update loop: the body replaces the document, so that absent
\* optional fields fall back to their defaults.
ApplyUpdatesReplacing(expense, updates) ==
    [k \in DOMAIN expense |->
        IF k \in AllowedUpdates /\ Has(updates, k) THEN updates[k]
        ELSE IF k = "notes" THEN EmptyStr
        ELSE IF k = "paymentMethod" THEN "Other"
        ELSE expense[k]]

\* Object.keys(updates).forEach(key => { if (allowedUpdates.includes(key))
\* expense[key] = updates[key]; })
ApplyUpdates(expense, updates) ==
    [k \in DOMAIN expense |->
        IF k \in AllowedUpdates /\ Has(updates, k) THEN updates[k] ELSE expense[k]]

\* expense.save() of a loaded document: the schema setters run, and the
\* timestamps plugin refreshes updatedAt when a path was modified.
Save(loaded, expense, t) ==
    LET cast == SchemaCast(expense)
    IN  IF cast # loaded THEN [cast EXCEPT !.updatedAt = t] ELSE cast

\* updateExpense on a sanitized body: the store and the response after
\* PUT /api/expenses/:id by caller uid at instant t.
UpdateExpense(s, uid, id, updates, t) ==
    LET loaded == FindOne(s, id, uid)
    IN  IF loaded = Null THEN [store |-> s, resp |-> NotFound]
        ELSE LET expense == Save(loaded, ApplyUpdates(loaded, updates), t)
             IN  IF SchemaValid(expense)
                 THEN [store |-> [s EXCEPT ![id] = expense],
                       resp |-> [status |-> 200,
                                 message |-> "Expense updated successfully",
                                 data |-> expense]]
                 ELSE [store |-> s, resp |-> AppError("Expense validation failed", 500)]

\* Mutant of findOneAndDelete: the document is found and left in place.
FindOneAndKeep(s, id, uid) == s

\* Expense.findOneAndDelete({ _id: id, userId: uid }): the collection after it.
FindOneAndDelete(s, id, uid) ==
    IF FindOne(s, id, uid) = Null THEN s
    ELSE [i \in DOMAIN s \ {id} |-> s[i]]

\* Mutant of deleteExpense: the document stays in the collection with a mark.
DeleteExpenseSoft(s, uid, id) ==
    LET expense == FindOne(s, id, uid)
    IN  IF expense = Null THEN [store |-> s, resp |-> NotFound]
        ELSE [store |-> [s EXCEPT ![id] = expense @@ [isDeleted |-> TRUE]],
              resp |-> [status |-> 200, message |-> "Expense deleted successfully",
                        data |-> [deletedExpense |-> expense]]]

\* deleteExpense: the store and the response after DELETE /api/expenses/:id.
DeleteExpense(s, uid, id) ==
    LET expense == FindOne(s, id, uid)
    IN  IF expense = Null THEN [store |-> s, resp |-> NotFound]
        ELSE [store |-> FindOneAndDelete(s, id, uid),
              resp |-> [status |-> 200, message |-> "Expense deleted successfully",
                        data |-> [deletedExpense |-> expense]]]


\* ------------------------------------------------------------------ routes

\* router.get('/:id', validateObjectId, getExpenseById)
RouteGet(s, uid, id) ==
    IF ValidateObjectId(id) # {} THEN ValidationFailed(ValidateObjectId(id))
    ELSE GetExpenseById(s, uid, id)

\* router.post('/', validateCreateExpense, createExpense)
RoutePost(s, uid, body, id, t) ==
    IF ValidateCreateExpense(body) # {}
    THEN [store |-> s, resp |-> ValidationFailed(ValidateCreateExpense(body))]
    ELSE CreateExpense(s, uid, Sanitize(body), id, t)

\* Mutant of the PUT route: validateUpdateExpense is not in the chain.
RoutePutUnvalidated(s, uid, id, body, t) ==
    IF ValidateObjectId(id) # {}
    THEN [store |-> s, resp |-> ValidationFailed(ValidateObjectId(id))]
    ELSE UpdateExpense(s, uid, id,
            [k \in DOMAIN body |->
                IF k = "amount" /\ MatchesFloat(body[k]) /\ body[k] # <<>>
                THEN ToFloat(body[k]) ELSE body[k]], t)

\* router.put('/:id', validateObjectId, validateUpdateExpense, updateExpense)
RoutePut(s, uid, id, body, t) ==
    IF ValidateObjectId(id) # {}
    THEN [store |-> s, resp |-> ValidationFailed(ValidateObjectId(id))]
    ELSE IF ValidateUpdateExpense(body) # {}
    THEN [store |-> s, resp |-> ValidationFailed(ValidateUpdateExpense(body))]
    ELSE UpdateExpense(s, uid, id, Sanitize(body), t)

\* router.delete('/:id', validateObjectId, deleteExpense)
RouteDelete(s, uid, id) ==
    IF ValidateObjectId(id) # {}
    THEN [store |-> s, resp |-> ValidationFailed(ValidateObjectId(id))]
    ELSE DeleteExpense(s, uid, id)

\* ------------------------------------------------------------------ inputs

Iso(t) == [iso |-> TRUE, at |-> t]

NotIso == [iso |-> FALSE]

\* The one-digit text of n
DigitText(n) == <<CHOOSE c \in DOMAIN DigitVal : DigitVal[c] = n>>

\* Path parameters: every ObjectId the store can hand out, and a text that is
\* none.
IdParams == (1..MaxExpenses) \cup {MalformedId}

\* Bodies of POST /api/expenses that pass validateCreateExpense: every field
\* given, padded with blanks, with a userId of the client's choosing; the
\* required fields only; the required fields with blank notes and client-chosen
\* userId, _id and createdAt.
ValidCreateBodies ==
    { ("title" :> Str(1, "a", 1, 1)) @@ ("amount" :> <<"5">>) @@ ("category" :> "Food")
        @@ ("date" :> Iso(1)) @@ ("notes" :> Str(1, "n", 1, 1))
        @@ ("paymentMethod" :> "Cash") @@ ("userId" :> "u2"),
      ("title" :> Str(0, "b", 1, 0)) @@ ("amount" :> <<"7", ".", "5">>)
        @@ ("category" :> "Other"),
      ("title" :> Str(0, "b", 1, 0)) @@ ("amount" :> <<"0", "7", ".", "5", "0">>)
        @@ ("category" :> "Other") @@ ("notes" :> Str(2, "", 0, 0))
        @@ ("userId" :> "u1") @@ ("_id" :> 1) @@ ("createdAt" :> 0) }

\* Bodies validateCreateExpense rejects.
InvalidCreateBodies ==
    { ("title" :> Str(0, "a", 1, 0)) @@ ("amount" :> <<"-", "5">>) @@ ("category" :> "Food"),
      ("title" :> Str(1, "", 0, 0)) @@ ("amount" :> <<"5">>) @@ ("category" :> "Food"),
      ("title" :> Str(0, "L", TitleMaxLen + 1, 0)) @@ ("amount" :> <<"0", ".", "0", "0", "5">>)
        @@ ("category" :> "Transport") @@ ("date" :> NotIso)
        @@ ("notes" :> Str(0, "N", NotesMaxLen + 1, 0)) @@ ("paymentMethod" :> "Bitcoin"),
      ("title" :> Str(0, "a", 1, 0)) @@ ("amount" :> <<"x">>),
      <<>> }

CreateBodies == ValidCreateBodies \cup InvalidCreateBodies

\* Bodies of PUT /api/expenses/:id that pass validateUpdateExpense: one field,
\* padded; an amount with the keys a client must not set; the other four
\* fields; no field at all; only keys a client must not set.
ValidUpdateBodies ==
    { ("title" :> Str(1, "b", 1, 1)),
      ("amount" :> <<"7", ".", "5">>) @@ ("userId" :> "u2") @@ ("_id" :> MaxExpenses + 1)
        @@ ("createdAt" :> 0),
      ("category" :> "Other") @@ ("date" :> Iso(2)) @@ ("notes" :> Str(1, "n", 1, 1))
        @@ ("paymentMethod" :> "UPI"),
      <<>>,
      ("userId" :> "u1") @@ ("_id" :> MaxExpenses + 1) @@ ("createdAt" :> 0) }

\* Bodies validateUpdateExpense rejects.
InvalidUpdateBodies ==
    { ("amount" :> <<"-", "5">>),
      ("title" :> Str(0, "b", 1, 0)) @@ ("amount" :> <<"0">>),
      ("title" :> Str(2, "", 0, 0)) @@ ("category" :> "Other"),
      ("category" :> "Transport") @@ ("paymentMethod" :> "Bitcoin") @@ ("date" :> NotIso),
      ("category" :> "Transport") }

UpdateBodies == ValidUpdateBodies \cup InvalidUpdateBodies

\* Queries of GET /api/expenses: pagination alone and under a category filter,
\* filters alone, sorts alone.
PageQueries ==
    { ("limit" :> DigitText(l)) @@ ("page" :> DigitText(p)) :
        l \in 1..2, p \in 0..MaxExpenses }
    \cup { ("category" :> "Food") @@ ("limit" :> DigitText(l)) @@ ("page" :> DigitText(p)) :
        l \in 1..2, p \in 0..MaxExpenses }
    \cup { ("limit" :> DigitText(l)) : l \in 0..2 }

FilterQueries ==
    { c @@ a @@ b :
        c \in {<<>>, ("category" :> "Food")},
        a \in {<<>>, ("startDate" :> Iso(2))},
        b \in {<<>>, ("endDate" :> Iso(2))} }

SortQueries ==
    { ("sortBy" :> f) @@ ("order" :> o) : f \in {"amount", "date"}, o \in {"asc", "desc"} }

Queries == PageQueries \cup FilterQueries \cup SortQueries

\* ------------------------------------------------------------------- state

VARIABLES
    store,      \* the expenses collection: ObjectId -> document
    nextId,     \* the next ObjectId the store hands out
    now,        \* the clock
    req,        \* the request being answered, [op |-> "none"] between requests
    resp,       \* the response to it
    born,       \* ObjectId -> the document as the create response returned it
    gone,       \* the ObjectIds a delete answered 200 for
    issued,     \* the create calls made while reports are taken, in order
    users,      \* the users collection, in order of insertion
    accounts,   \* the accounts of the identity provider: uid -> email
    tokensValidAfterTime,   \* uid -> the instant of its last revocation
    calls       \* the requests whose handlers run in steps: number -> call

vars == <<store, nextId, now, req, resp, born, gone, issued, users, accounts,
          tokensValidAfterTime, calls>>

\* What the expense routes leave alone.
authVars == <<users, accounts, tokensValidAfterTime, calls>>

\* The users collection and the identity provider.
identityVars == <<users, accounts, tokensValidAfterTime>>

NoRequest == [op |-> "none"]

NoResponse == [status |-> 0]

Init ==
    /\ store = <<>>
    /\ nextId = 1
    /\ now = 1
    /\ req = NoRequest
    /\ resp = NoResponse
    /\ born = <<>>
    /\ gone = {}
    /\ issued = <<>>
    /\ users = <<>>
    /\ accounts = <<>>
    /\ tokensValidAfterTime = <<>>
    /\ calls = <<>>

\* GET /api/expenses
ListExpenses(uid, q) ==
    /\ req = NoRequest
    /\ req' = [op |-> "list", uid |-> uid, query |-> q]
    /\ resp' = GetAllExpenses(store, uid, q)
    /\ UNCHANGED <<store, nextId, now, born, gone, issued, authVars>>

\* Mutant of GET /api/expenses/:id: the document is fetched with
\* findOneAndDelete.
GetExpenseDeleting(uid, id) ==
    /\ req = NoRequest
    /\ req' = [op |-> "get", uid |-> uid, id |-> id]
    /\ resp' = RouteGet(store, uid, id)
    /\ store' = RouteDelete(store, uid, id).store
    /\ UNCHANGED <<nextId, now, born, gone, issued, authVars>>

\* GET /api/expenses/:id
GetExpense(uid, id) ==
    /\ req = NoRequest
    /\ req' = [op |-> "get", uid |-> uid, id |-> id]
    /\ resp' = RouteGet(store, uid, id)
    /\ UNCHANGED <<store, nextId, now, born, gone, issued, authVars>>

\* POST /api/expenses
PostExpense(uid, body) ==
    /\ req = NoRequest
    /\ nextId <= MaxExpenses
    /\ now <= MaxClock
    /\ UNCHANGED <<issued, authVars>>
    /\ LET r == RoutePost(store, uid, body, nextId, now)
       IN  /\ req' = [op |-> "create", uid |-> uid, body |-> body]
           /\ resp' = r.resp
           /\ store' = r.store
           /\ nextId' = IF r.resp.status = 201 THEN nextId + 1 ELSE nextId
           /\ now' = IF r.resp.status = 201 THEN now + 1 ELSE now
           /\ born' = IF r.resp.status = 201 THEN (nextId :> r.resp.data) @@ born ELSE born
           /\ gone' = gone

\* PUT /api/expenses/:id
PutExpense(uid, id, body) ==
    /\ req = NoRequest
    /\ now <= MaxClock
    /\ LET r == RoutePut(store, uid, id, body, now)
       IN  /\ req' = [op |-> "update", uid |-> uid, id |-> id, body |-> body]
           /\ resp' = r.resp
           /\ store' = r.store
           /\ now' = IF r.store # store THEN now + 1 ELSE now
           /\ UNCHANGED <<nextId, born, gone, issued, authVars>>

\* DELETE /api/expenses/:id
DeleteExpenseReq(uid, id) ==
    /\ req = NoRequest
    /\ LET r == RouteDelete(store, uid, id)
       IN  /\ req' = [op |-> "delete", uid |-> uid, id |-> id]
           /\ resp' = r.resp
           /\ store' = r.store
           /\ gone' = IF r.resp.status = 200 THEN gone \cup {id} ELSE gone
           /\ UNCHANGED <<nextId, now, born, issued, authVars>>

\* res.status(...).json(...) has gone out: the request is over, and the server
\* takes the next one.
EndRequest ==
    /\ req # NoRequest
    /\ req' = NoRequest
    /\ resp' = NoResponse
    /\ UNCHANGED <<store, nextId, now, born, gone, issued, authVars>>

Next ==
    \/ \E uid \in Users, q \in Queries : ListExpenses(uid, q)
    \/ \E uid \in Users, id \in IdParams : GetExpense(uid, id)
    \/ \E uid \in Users, body \in CreateBodies : PostExpense(uid, body)
    \/ \E uid \in Users, id \in IdParams, body \in UpdateBodies : PutExpense(uid, id, body)
    \/ \E uid \in Users, id \in IdParams : DeleteExpenseReq(uid, id)
    \/ EndRequest

Spec == Init /\ [][Next]_vars


\* ------------------------------------------------------------------ claims

\* The documents a response carries.
Returned(rq, rs) ==
    IF rs.status \notin {200, 201} THEN {}
    ELSE CASE rq.op = "list" -> {rs.data.expenses[i] : i \in 1..Len(rs.data.expenses)}
           [] rq.op = "delete" -> {rs.data.deletedExpense}
           [] OTHER -> {rs.data}

\* The collection without the documents of users other than uid.
OwnRecords(s, uid) == [i \in {j \in DOMAIN s : s[j].userId = uid} |-> s[i]]

\* C1. Isolation: no response to a caller carries a document owned by another
\* user, and no request of a caller changes or removes a document owned by
\* another user.
C1_Isolation ==
    [][req' # NoRequest =>
        /\ \A d \in Returned(req', resp') : d.userId = req'.uid
        /\ \A i \in DOMAIN store :
              store[i].userId # req'.uid => i \in DOMAIN store' /\ store'[i] = store[i]
      ]_vars

\* A caller has asked to delete another user's document while owning one.
C1_Witness ==
    /\ req.op = "delete"
    /\ req.id \in DOMAIN store
    /\ store[req.id].userId # req.uid
    /\ \E i \in DOMAIN store : store[i].userId = req.uid

\* C2. Get, update and delete by id answer a caller as they would if the other
\* users' documents were not in the store; with a well-formed id and a valid
\* body, an id of another user's document and an id of no document both get
\* the one 404 response.
C2_Indistinguishable ==
    [][/\ req'.op = "get" =>
            resp' = RouteGet(OwnRecords(store, req'.uid), req'.uid, req'.id)
       /\ req'.op = "update" =>
            resp' = RoutePut(OwnRecords(store, req'.uid), req'.uid, req'.id,
                             req'.body, now).resp
       /\ req'.op = "delete" =>
            resp' = RouteDelete(OwnRecords(store, req'.uid), req'.uid, req'.id).resp
       /\ ( /\ req'.op \in {"get", "update", "delete"}
            /\ IsMongoId(req'.id)
            /\ req'.op = "update" => ValidateUpdateExpense(req'.body) = {}
            /\ \/ req'.id \notin DOMAIN store
               \/ store[req'.id].userId # req'.uid )
          => resp' = [status |-> 404, message |-> "Expense not found or unauthorized"]
      ]_vars

\* A caller has asked for another user's document by its id.
C2_Witness ==
    /\ req.op = "get"
    /\ req.id \in DOMAIN store
    /\ store[req.id].userId # req.uid
    /\ resp.status = 404

\* C3. The document a valid create stores and returns is owned by the caller,
\* whatever the body holds.
C3_OwnerIsCaller ==
    (req.op = "create" /\ resp.status = 201) =>
        /\ resp.data.userId = req.uid
        /\ resp.data._id \in DOMAIN store
        /\ store[resp.data._id].userId = req.uid

\* A create whose body names another user as userId has been answered 201.
C3_Witness ==
    /\ req.op = "create"
    /\ resp.status = 201
    /\ Has(req.body, "userId")
    /\ req.body.userId # req.uid

\* C4. Every stored document keeps the owner, the id and the creation
\* timestamp it was created with.
C4_IdentityKept ==
    \A i \in DOMAIN store :
        /\ i \in DOMAIN born
        /\ store[i]._id = i
        /\ store[i].userId = born[i].userId
        /\ store[i].createdAt = born[i].createdAt

\* An update whose body holds userId, _id and createdAt has changed a document.
C4_Witness ==
    /\ req.op = "update"
    /\ resp.status = 200
    /\ {"userId", "_id", "createdAt"} \subseteq DOMAIN req.body
    /\ req.body.userId # req.uid
    /\ store[req.id] # born[req.id]


\* The value a field of a valid body denotes: the number of a decimal text,
\* the instant of an ISO 8601 text, and the text itself otherwise.
Denoted(b) ==
    [k \in DOMAIN b |->
        CASE k = "amount" -> ParseFloat(b[k])
          [] k = "date" -> b[k].at
          [] OTHER -> b[k]]

\* The six fields a client sets.
ClientFields == {"title", "amount", "category", "date", "notes", "paymentMethod"}

\* C5, as stated. A successful update leaves every allow-listed field absent
\* from the body at its stored value and sets every one present to the
\* supplied value.
C5_AsSupplied ==
    [][(req'.op = "update" /\ resp'.status = 200) =>
        \A k \in ClientFields :
            IF Has(req'.body, k)
            THEN store'[req'.id][k] = Denoted(req'.body)[k]
            ELSE store'[req'.id][k] = store[req'.id][k]
      ]_vars

\* C5, amended. A successful update leaves every allow-listed field absent
\* from the body at its stored value and sets every one present to the
\* supplied value, title and notes without the blanks at their ends.
C5_PartialUpdate ==
    [][(req'.op = "update" /\ resp'.status = 200) =>
        \A k \in ClientFields :
            IF Has(req'.body, k)
            THEN store'[req'.id][k] =
                    (IF k \in {"title", "notes"} THEN Trim(req'.body[k])
                     ELSE Denoted(req'.body)[k])
            ELSE store'[req'.id][k] = store[req'.id][k]
      ]_vars

\* An update that gives some of the six fields and not others has changed a
\* document that held non-default notes and payment method.
C5_Witness ==
    /\ req.op = "update"
    /\ resp.status = 200
    /\ Has(req.body, "title")
    /\ ~Has(req.body, "notes")
    /\ store[req.id].notes # EmptyStr
    /\ store[req.id].paymentMethod # "Other"
    /\ store[req.id].updatedAt # store[req.id].createdAt

\* C6. An update whose body fails validation is answered 400 and leaves the
\* store as it was.
C6_InvalidUpdateRejected ==
    [][(req'.op = "update" /\ ValidateUpdateExpense(req'.body) # {}) =>
        /\ resp'.status = 400
        /\ store' = store
      ]_vars

\* An update with amount -5 of a document the caller owns has been answered.
C6_Witness ==
    /\ req.op = "update"
    /\ Has(req.body, "amount")
    /\ req.body.amount = <<"-", "5">>
    /\ req.id \in DOMAIN store
    /\ store[req.id].userId = req.uid
    /\ resp.status = 400

\* The fields get by id returns for the document a create has just returned.
ReadBack == RouteGet(store, req.uid, resp.data._id)

C8_DeleteRemoves ==
    [][/\ gone' \cap DOMAIN store' = {}
       /\ (req'.op \in {"delete", "get"} /\ req'.id \in gone) => resp'.status = 404
      ]_vars

\* The owner has asked a second time to delete a document.
C8_Witness ==
    /\ req.op = "delete"
    /\ req.id \in gone
    /\ req.uid = born[req.id].userId
    /\ resp.status = 404


\* The caller's documents that match the filter of the list request.
Matching == Find(store, BuildFilter(req.uid, req.query))

RECURSIVE SumOf(_)
SumOf(docs) ==
    IF docs = {} THEN 0
    ELSE LET d == CHOOSE e \in docs : TRUE IN d.amount + SumOf(docs \ {d})

\* C9. In every list response summary.totalAmount is the sum of the amounts of
\* all the caller's documents that match the filter.
C9_TotalOverFilteredSet ==
    (req.op = "list" /\ resp.status = 200) =>
        resp.data.summary.totalAmount = SumOf(Matching)

\* The page size and the page number of a paginated list request.
PageSize == IF Has(req.query, "limit") THEN ParseInt(req.query.limit) ELSE 0

PageNumber == IF Has(req.query, "page") THEN ParseInt(req.query.page) ELSE 1

\* The last page of n records in pages of p: the least k with n <= k * p.
LastPage(n, p) == CHOOSE k \in 0..n : n <= k * p /\ \A j \in 0..(k - 1) : n > j * p

\* The size of the last page as the claim gives it.
Remainder(n, p) == IF n % p = 0 THEN p ELSE n % p

\* C10, as stated. For every N matching records and page size P >= 1, page
\* ceil(N/P) holds N mod P records, or P when N mod P = 0, and totalPages is
\* ceil(N/P).
C10_LastPageAnyN ==
    LET n == Cardinality(Matching)
    IN  (req.op = "list" /\ PageSize >= 1 /\ PageNumber = LastPage(n, PageSize)) =>
            /\ resp.status = 200
            /\ Len(resp.data.expenses) = Remainder(n, PageSize)
            /\ resp.data.pagination.totalPages = LastPage(n, PageSize)

\* C10, amended. The same for every N >= 1.
C10_LastPage ==
    LET n == Cardinality(Matching)
    IN  (req.op = "list" /\ PageSize >= 1 /\ n >= 1
         /\ PageNumber = LastPage(n, PageSize)) =>
            /\ resp.status = 200
            /\ Len(resp.data.expenses) = Remainder(n, PageSize)
            /\ resp.data.pagination.totalPages = LastPage(n, PageSize)

\* The second page of three matching records in pages of two has been asked.
C10_Witness ==
    /\ req.op = "list"
    /\ Cardinality(Matching) = 3
    /\ PageSize = 2
    /\ PageNumber = 2
    /\ Len(resp.data.expenses) = 1

\* ---------------------------------------------------------------- calendar
\* A Date is an instant counted from 2025-01-01T00:00:00Z in ticks, the parts
\* of a second the model tells apart (a Date of the program counts
\* milliseconds). The server's local time zone is UTC, the zone the
\* documentation states dates are kept in.

\* Ticks in a second
TicksPerSecond == 2

\* Ticks in a day
TicksPerDay == 86400 * TicksPerSecond

IsLeapYear(y) == (y % 4 = 0 /\ y % 100 # 0) \/ y % 400 = 0

DaysInYear(y) == IF IsLeapYear(y) THEN 366 ELSE 365

DaysInMonth(y, m) ==
    CASE m \in {4, 6, 9, 11} -> 30
      [] m = 2 -> IF IsLeapYear(y) THEN 29 ELSE 28
      [] OTHER -> 31

\* Days from 2025-01-01 to the first day of year y
RECURSIVE DaysBeforeYear(_)
DaysBeforeYear(y) ==
    IF y = 2025 THEN 0
    ELSE IF y > 2025 THEN DaysBeforeYear(y - 1) + DaysInYear(y - 1)
    ELSE DaysBeforeYear(y + 1) - DaysInYear(y)

\* Days from the first day of year y to the first day of its month m
RECURSIVE DaysBeforeMonth(_, _)
DaysBeforeMonth(y, m) ==
    IF m = 1 THEN 0 ELSE DaysBeforeMonth(y, m - 1) + DaysInMonth(y, m - 1)

\* new Date(year, monthIndex, day, hours, minutes, seconds): monthIndex counts
\* from 0 and runs over into the next year, day 0 is the last day of the month
\* before; the milliseconds are 0.
MakeDate(year, monthIndex, day, hours, minutes, seconds) ==
    LET y == year + (monthIndex \div 12)
        m == (monthIndex % 12) + 1
    IN  (DaysBeforeYear(y) + DaysBeforeMonth(y, m) + day - 1) * TicksPerDay
            + (hours * 3600 + minutes * 60 + seconds) * TicksPerSecond

\* The years the calendar is read back over.
CalendarYears == 2024..2026

\* The calendar day of an instant: year, month and day of month.
CalendarDay(t) ==
    LET n == t \div TicksPerDay
        y == CHOOSE k \in CalendarYears : DaysBeforeYear(k) <= n /\ n < DaysBeforeYear(k + 1)
        r == n - DaysBeforeYear(y)
        m == CHOOSE k \in 1..12 :
                 DaysBeforeMonth(y, k) <= r /\ r < DaysBeforeMonth(y, k) + DaysInMonth(y, k)
    IN  [year |-> y, month |-> m, day |-> r - DaysBeforeMonth(y, m) + 1]

\* Date.prototype.getDate
GetDate(t) == CalendarDay(t).day

\* date.toISOString().slice(0, 7): the text YYYY-MM, kept as its two numbers.
MonthKey(t) == [year |-> CalendarDay(t).year, month |-> CalendarDay(t).month]

\* a.localeCompare(b) < 0 on two YYYY-MM texts
MonthKeyBefore(a, b) ==
    a.year < b.year \/ (a.year = b.year /\ a.month < b.month)

\* The ISO 8601 text YYYY-MM-DD, which new Date reads as midnight UTC.
IsoDay(y, m, d) == Iso(MakeDate(y, m - 1, d, 0, 0, 0))

\* ----------------------------------------------------------------- reports

\* The nearest integer to n / d, halves upwards; n >= 0, d >= 1
DivRound(n, d) == (2 * n + d) \div (2 * d)

\* parseFloat((x / n).toFixed(2)) on a Number x >= 0 kept in thousandths and a
\* count n >= 1
DivFixed2(x, n) == DivRound(x, 10 * n) * 10

\* Mutant of Percentage: toFixed(0), the percentage rounded to a whole number.
PercentageWhole(a, total) == DivRound(a * 100, total) * 1000

\* The Number Infinity, kept as the greatest integer there is.
Infinity == 2147483647

\* parseFloat(((a / total) * 100).toFixed(2)) on Numbers kept in thousandths,
\* a > 0, total >= 0: a percentage kept in thousandths. a / 0 is Infinity,
\* which toFixed and parseFloat hand on as it is.
Percentage(a, total) ==
    IF total = 0 THEN Infinity
    ELSE LET q == (a * 100) \div total
             r == (a * 100) % total
         IN  (q * 100 + DivRound(r * 100, total)) * 10

\* $sum of amount over a set of documents
RECURSIVE SumAmount(_)
SumAmount(docs) ==
    IF docs = {} THEN 0
    ELSE LET d == CHOOSE e \in docs : TRUE
         IN  d.amount + SumAmount(docs \ {d})

\* The least _id of a set of documents: the first of them in the collection.
FirstId(docs) == CHOOSE i \in {d._id : d \in docs} : \A d \in docs : i <= d._id

\* { $group: { _id: '$category', totalAmount: { $sum: '$amount' },
\*             count: { $sum: 1 } } }
GroupByCategory(docs) ==
    { LET members == {d \in docs : d.category = c}
      IN  [_id |-> c, totalAmount |-> SumAmount(members),
           count |-> Cardinality(members), first |-> FirstId(members)] :
        c \in {d.category : d \in docs} }

\* Mutant of SortGroups: { $sort: { totalAmount: 1 } }, the least total first.
RECURSIVE SortGroupsAscending(_)
SortGroupsAscending(groups) ==
    IF groups = {} THEN <<>>
    ELSE LET low == CHOOSE g \in groups : \A h \in groups \ {g} :
                 \/ g.totalAmount < h.totalAmount
                 \/ g.totalAmount = h.totalAmount /\ g.first < h.first
         IN  <<low>> \o SortGroupsAscending(groups \ {low})

\* { $sort: { totalAmount: -1 } }; groups of equal total come in the order
\* their first documents were inserted.
RECURSIVE SortGroups(_)
SortGroups(groups) ==
    IF groups = {} THEN <<>>
    ELSE LET top == CHOOSE g \in groups : \A h \in groups \ {g} :
                 \/ g.totalAmount > h.totalAmount
                 \/ g.totalAmount = h.totalAmount /\ g.first < h.first
         IN  <<top>> \o SortGroups(groups \ {top})

\* summary.reduce((sum, item) => sum + item[field], 0)
RECURSIVE Reduce(_, _)
Reduce(seq, field) ==
    IF seq = <<>> THEN 0 ELSE seq[1][field] + Reduce(Tail(seq), field)

\* The date window of a month: new Date(year, month - 1, 1) to
\* new Date(year, month, 0, 23, 59, 59).
MonthWindow(userId, month, year) ==
    ("userId" :> userId)
    @@ ("$gte" :> MakeDate(year, month - 1, 1, 0, 0, 0))
    @@ ("$lte" :> MakeDate(year, month, 0, 23, 59, 59))

\* Expense.getMonthlySummary(userId, month, year)
GetMonthlySummary(s, userId, month, year) ==
    LET summary == SortGroups(GroupByCategory(Find(s, MonthWindow(userId, month, year))))
        totalExpenses == Reduce(summary, "totalAmount")
        totalTransactions == Reduce(summary, "count")
    IN  [month |-> month,
         year |-> year,
         totalExpenses |-> ToFixed2(totalExpenses),
         totalTransactions |-> totalTransactions,
         categoryBreakdown |->
             [i \in 1..Len(summary) |->
                 [category |-> summary[i]._id,
                  amount |-> ToFixed2(summary[i].totalAmount),
                  count |-> summary[i].count,
                  percentage |-> Percentage(summary[i].totalAmount, totalExpenses)]]]

\* .select('title amount category date paymentMethod'), which keeps _id
SelectBrief(d) ==
    [_id |-> d._id, title |-> d.title, amount |-> d.amount, category |-> d.category,
     date |-> d.date, paymentMethod |-> d.paymentMethod]

\* getMonthlyReport with the collection as its two queries meet it:
\* atSummary when getMonthlySummary aggregates, atFind when Expense.find runs.
GetMonthlyReportOver(atSummary, atFind, uid, month, year) ==
    LET summary == GetMonthlySummary(atSummary, uid, month, year)
        found == Sort(Find(atFind, MonthWindow(uid, month, year)), "date", 0 - 1)
        daysInMonth == GetDate(MakeDate(year, month, 0, 0, 0, 0))
    IN  [status |-> 200,
         message |-> "Monthly report generated successfully",
         data |-> [summary |->
                       [month |-> summary.month,
                        year |-> summary.year,
                        totalExpenses |-> summary.totalExpenses,
                        totalTransactions |-> summary.totalTransactions,
                        categoryBreakdown |-> summary.categoryBreakdown,
                        dailyAverage |-> DivFixed2(summary.totalExpenses, daysInMonth),
                        daysInMonth |-> daysInMonth],
                   expenses |-> [i \in 1..Len(found) |-> SelectBrief(found[i])]]]

\* getMonthlyReport: the response to GET /api/reports/monthly by caller uid,
\* month and year being the numbers toInt left in the query, when no other
\* request writes between its two queries.
GetMonthlyReport(s, uid, month, year) == GetMonthlyReportOver(s, s, uid, month, year)

\* isInt({ min, max }) on a text of decimal digits
IsInt(s, min, max) ==
    /\ s # <<>>
    /\ \A i \in 1..Len(s) : IsDigit(s[i])
    /\ min <= DigitsVal(s) /\ DigitsVal(s) <= max

\* validateMonthlyReport: the fields of the query it finds fault with.
ValidateMonthlyReport(q) ==
    {f \in {"month"} : ~(Has(q, "month") /\ IsInt(q.month, 1, 12))}
    \cup {f \in {"year"} : ~(Has(q, "year") /\ IsInt(q.year, 2000, 2100))}

\* GET /api/reports/monthly: validateMonthlyReport, getMonthlyReport
RouteMonthly(s, uid, q) ==
    IF ValidateMonthlyReport(q) # {}
    THEN ValidationFailed(ValidateMonthlyReport(q))
    ELSE GetMonthlyReport(s, uid, ParseInt(q.month), ParseInt(q.year))

\* The filter getCategoryReport and getOverallStats build: the caller, the
\* category if the report has one, and the date bounds the query gives.
ReportFilter(uid, q) ==
    ("userId" :> uid)
    @@ (IF Has(q, "category") THEN ("category" :> q.category) ELSE <<>>)
    @@ (IF Has(q, "startDate") THEN ("$gte" :> NewDate(q.startDate)) ELSE <<>>)
    @@ (IF Has(q, "endDate") THEN ("$lte" :> NewDate(q.endDate)) ELSE <<>>)

\* Math.max(...expenses.map(e => e.amount)), $max of amount
GreatestAmount(docs) == CHOOSE a \in {d.amount : d \in docs} : \A d \in docs : a >= d.amount

\* Mutant of $min: the amount of the document inserted first.
FirstAmount(docs) == (CHOOSE d \in docs : \A e \in docs : d._id <= e._id).amount

\* Math.min(...expenses.map(e => e.amount)), $min of amount
LeastAmount(docs) == CHOOSE a \in {d.amount : d \in docs} : \A d \in docs : a <= d.amount

\* The accumulator of the monthly trend: one entry per YYYY-MM key met.
TrendGroups(docs) ==
    { LET members == {d \in docs : MonthKey(d.date) = k}
      IN  [month |-> k, total |-> SumAmount(members), count |-> Cardinality(members)] :
        k \in {MonthKey(d.date) : d \in docs} }

\* Mutant of the trend's sort: b.month.localeCompare(a.month), the latest
\* month first.
RECURSIVE SortTrendDescending(_)
SortTrendDescending(groups) ==
    IF groups = {} THEN <<>>
    ELSE LET last == CHOOSE g \in groups :
                 \A h \in groups \ {g} : MonthKeyBefore(h.month, g.month)
         IN  <<last>> \o SortTrendDescending(groups \ {last})

\* Object.values(monthlyTrend).sort((a, b) => a.month.localeCompare(b.month))
RECURSIVE SortTrend(_)
SortTrend(groups) ==
    IF groups = {} THEN <<>>
    ELSE LET first == CHOOSE g \in groups :
                 \A h \in groups \ {g} : MonthKeyBefore(g.month, h.month)
         IN  <<first>> \o SortTrend(groups \ {first})

\* getCategoryReport: the response to GET /api/reports/category by caller uid.
GetCategoryReport(s, uid, q) ==
    LET found == Find(s, ReportFilter(uid, q))
        expenses == Sort(found, "date", 0 - 1)
        n == Len(expenses)
        totalAmount == SumAmounts(expenses)
        trend == SortTrend(TrendGroups(found))
    IN  [status |-> 200,
         message |-> <<"Category report for", q.category, "generated successfully">>,
         data |-> [category |-> q.category,
                   statistics |->
                       [totalExpenses |-> n,
                        totalAmount |-> ToFixed2(totalAmount),
                        averageAmount |-> IF n > 0 THEN DivFixed2(totalAmount, n) ELSE 0,
                        maxExpense |-> IF n > 0 THEN ToFixed2(GreatestAmount(found)) ELSE 0,
                        minExpense |-> IF n > 0 THEN ToFixed2(LeastAmount(found)) ELSE 0],
                   monthlyTrend |->
                       [i \in 1..Len(trend) |->
                           [month |-> trend[i].month,
                            total |-> ToFixed2(trend[i].total),
                            count |-> trend[i].count,
                            average |-> DivFixed2(trend[i].total, trend[i].count)]],
                   expenses |-> expenses]]

\* validateCategoryFilter: the fields of the query it finds fault with.
ValidateCategoryFilter(q) ==
    {f \in {"category"} : ~(Has(q, "category") /\ q.category \in Categories)}

\* GET /api/reports/category: validateCategoryFilter, getCategoryReport
RouteCategory(s, uid, q) ==
    IF ValidateCategoryFilter(q) # {}
    THEN ValidationFailed(ValidateCategoryFilter(q))
    ELSE GetCategoryReport(s, uid, q)

\* { $group: { _id: '$field', total: { $sum: '$amount' }, count: { $sum: 1 } } }
GroupTotals(docs, field) ==
    { LET members == {d \in docs : d[field] = v}
      IN  [_id |-> v, total |-> SumAmount(members),
           count |-> Cardinality(members), first |-> FirstId(members)] :
        v \in {d[field] : d \in docs} }

\* { $sort: { total: -1 } }; groups of equal total come in the order their
\* first documents were inserted.
RECURSIVE SortTotals(_)
SortTotals(groups) ==
    IF groups = {} THEN <<>>
    ELSE LET top == CHOOSE g \in groups : \A h \in groups \ {g} :
                 \/ g.total > h.total
                 \/ g.total = h.total /\ g.first < h.first
         IN  <<top>> \o SortTotals(groups \ {top})

\* The breakdown of getOverallStats by a field: per value its total, count and
\* share of the overall total.
Breakdown(docs, field, totalAmount) ==
    LET groups == SortTotals(GroupTotals(docs, field))
    IN  [i \in 1..Len(groups) |->
            (field :> groups[i]._id)
            @@ [total |-> ToFixed2(groups[i].total),
                count |-> groups[i].count,
                percentage |-> Percentage(groups[i].total, totalAmount)]]

\* getOverallStats with the collection as its three aggregations meet it:
\* atStats for the overall group, atCategory and atPayment for the breakdowns.
GetOverallStatsOver(atStats, atCategory, atPayment, uid, q) ==
    LET found == Find(atStats, ReportFilter(uid, q))
        n == Cardinality(found)
        totalAmount == SumAmount(found)
    IN  [status |-> 200,
         message |-> "Overall statistics generated successfully",
         data |-> [overall |->
                       [totalExpenses |-> n,
                        totalAmount |-> ToFixed2(totalAmount),
                        averageAmount |-> IF n > 0 THEN DivFixed2(totalAmount, n) ELSE 0,
                        maxAmount |-> IF n > 0 THEN ToFixed2(GreatestAmount(found)) ELSE 0,
                        minAmount |-> IF n > 0 THEN ToFixed2(LeastAmount(found)) ELSE 0],
                   categoryBreakdown |->
                       Breakdown(Find(atCategory, ReportFilter(uid, q)), "category",
                                 totalAmount),
                   paymentMethodBreakdown |->
                       Breakdown(Find(atPayment, ReportFilter(uid, q)), "paymentMethod",
                                 totalAmount)]]

\* getOverallStats: the response to GET /api/reports/stats by caller uid, when
\* no other request writes between its aggregations.
GetOverallStats(s, uid, q) == GetOverallStatsOver(s, s, s, uid, q)

\* GET /api/reports/stats: getOverallStats, which no validator precedes
RouteStats(s, uid, q) == GetOverallStats(s, uid, q)

\* ------------------------------------------------------- reports: the inputs

\* The most create calls the reports are taken over.
MaxReportExpenses == 4

\* The user who records expenses; the other user only reads, with well-formed
\* queries.
ReportUser == "u1"

\* A body of POST /api/expenses with the required fields and a date.
ReportBody(category, amount, date) ==
    ("title" :> Str(0, "a", 1, 0)) @@ ("amount" :> amount) @@ ("category" :> category)
    @@ ("date" :> date)

\* Bodies with whole amounts in January 2025, one of them under a label that
\* is no category, and bodies with amounts of a fraction of a cent in
\* February 2025, each under a category of its own.
ReportBodies ==
    { ReportBody("Food", <<"1", "0", "0">>, IsoDay(2025, 1, 5)),
      ReportBody("Food", <<"5", "0">>, IsoDay(2025, 1, 20)),
      ReportBody("Transport", <<"3", "0">>, IsoDay(2025, 1, 10)),
      ReportBody("Transportation", <<"3", "0">>, IsoDay(2025, 1, 10)) }
    \cup { ReportBody(c, <<"0", ".", "0", "1", "6">>, IsoDay(2025, 2, 3)) :
             c \in {"Food", "Bills", "Travel", "Other"} }

\* Queries of GET /api/reports/monthly: the two months with records, a month
\* that is none, and a query without a year.
MonthlyQueries ==
    { ("month" :> <<"1">>) @@ ("year" :> <<"2", "0", "2", "5">>),
      ("month" :> <<"2">>) @@ ("year" :> <<"2", "0", "2", "5">>),
      ("month" :> <<"1", "3">>) @@ ("year" :> <<"2", "0", "2", "5">>),
      ("month" :> <<"1">>) }

\* Queries of GET /api/reports/category: a category alone and within date
\* bounds, and a label that is no category.
CategoryQueries ==
    { ("category" :> "Food"),
      ("category" :> "Food") @@ ("startDate" :> IsoDay(2025, 1, 10))
        @@ ("endDate" :> IsoDay(2025, 2, 3)),
      ("category" :> "Transport") }

\* Queries of GET /api/reports/stats: no bounds, a lower bound, an upper bound,
\* and a lower bound later than the upper one.
StatsQueries ==
    { <<>>,
      ("startDate" :> IsoDay(2025, 1, 10)),
      ("endDate" :> IsoDay(2025, 1, 10)),
      ("startDate" :> IsoDay(2025, 1, 20)) @@ ("endDate" :> IsoDay(2025, 1, 5)) }

\* The queries a user sends: the recording user all of them, the other user
\* those that name a month, a year or a category that is one and no date bounds.
QueriesOf(uid, queries) ==
    IF uid = ReportUser THEN queries
    ELSE {q \in queries :
            /\ ~Has(q, "startDate") /\ ~Has(q, "endDate")
            /\ Has(q, "month") => ValidateMonthlyReport(q) = {}
            /\ Has(q, "category") => ValidateCategoryFilter(q) = {}}

\* ------------------------------------------------------ reports: the actions

\* POST /api/expenses, while few enough calls have been made to report over;
\* the call is kept in issued.
PostForReport(uid, body) ==
    /\ req = NoRequest
    /\ Len(issued) < MaxReportExpenses
    /\ issued' = Append(issued, [uid |-> uid, body |-> body])
    /\ UNCHANGED authVars
    /\ LET r == RoutePost(store, uid, body, nextId, now)
       IN  /\ req' = [op |-> "create", uid |-> uid, body |-> body]
           /\ resp' = r.resp
           /\ store' = r.store
           /\ nextId' = IF r.resp.status = 201 THEN nextId + 1 ELSE nextId
           /\ now' = IF r.resp.status = 201 THEN now + 1 ELSE now
           /\ born' = IF r.resp.status = 201 THEN (nextId :> r.resp.data) @@ born ELSE born
           /\ gone' = gone

\* GET /api/reports/monthly
MonthlyReport(uid, q) ==
    /\ req = NoRequest
    /\ req' = [op |-> "monthly", uid |-> uid, query |-> q]
    /\ resp' = RouteMonthly(store, uid, q)
    /\ UNCHANGED <<store, nextId, now, born, gone, issued, authVars>>

\* GET /api/reports/category
CategoryReport(uid, q) ==
    /\ req = NoRequest
    /\ req' = [op |-> "category", uid |-> uid, query |-> q]
    /\ resp' = RouteCategory(store, uid, q)
    /\ UNCHANGED <<store, nextId, now, born, gone, issued, authVars>>

\* GET /api/reports/stats
OverallStats(uid, q) ==
    /\ req = NoRequest
    /\ req' = [op |-> "stats", uid |-> uid, query |-> q]
    /\ resp' = RouteStats(store, uid, q)
    /\ UNCHANGED <<store, nextId, now, born, gone, issued, authVars>>

NextReport ==
    \/ \E body \in ReportBodies : PostForReport(ReportUser, body)
    \/ \E uid \in Users : \E q \in QueriesOf(uid, MonthlyQueries) : MonthlyReport(uid, q)
    \/ \E uid \in Users : \E q \in QueriesOf(uid, CategoryQueries) : CategoryReport(uid, q)
    \/ \E uid \in Users : \E q \in QueriesOf(uid, StatsQueries) : OverallStats(uid, q)
    \/ \E uid \in Users : ListExpenses(uid, <<>>)
    \/ \E id \in {1, MalformedId} : GetExpense(ReportUser, id)
    \/ EndRequest

SpecReport == Init /\ [][NextReport]_vars

\* ---------------------------------------------------------- claims: reports

\* A monthly report has been answered.
MonthlyAnswered == req.op = "monthly" /\ resp.status = 200

\* The sum of a field over the entries of a breakdown
RECURSIVE BreakdownSum(_, _)
BreakdownSum(entries, field) ==
    IF entries = <<>> THEN 0
    ELSE entries[Len(entries)][field]
            + BreakdownSum(SubSeq(entries, 1, Len(entries) - 1), field)

\* |a - b|
Distance(a, b) == IF a >= b THEN a - b ELSE b - a

\* C11 as stated: in every Monthly Report the sum of the categoryBreakdown
\* amounts differs from summary.totalExpenses by at most 0.01.
C11_WithinOneCent ==
    MonthlyAnswered =>
        Distance(BreakdownSum(resp.data.summary.categoryBreakdown, "amount"),
                 resp.data.summary.totalExpenses) <= 10

\* C11 amended: in every Monthly Report the sum of the categoryBreakdown
\* amounts differs from summary.totalExpenses by at most 0.005 * (k + 1), k the
\* number of categoryBreakdown entries: each entry and the total are rounded
\* to two decimals on their own.
C11_WithinRounding ==
    MonthlyAnswered =>
        Distance(BreakdownSum(resp.data.summary.categoryBreakdown, "amount"),
                 resp.data.summary.totalExpenses)
            <= 5 * (Len(resp.data.summary.categoryBreakdown) + 1)

\* A Monthly Report over four categories whose sums all have a fraction of a
\* cent, where the breakdown's amounts and the total are more than a cent apart.
C11_Witness ==
    /\ MonthlyAnswered
    /\ Len(resp.data.summary.categoryBreakdown) = 4
    /\ \A id \in DOMAIN store : store[id].amount % 10 # 0
    /\ Distance(BreakdownSum(resp.data.summary.categoryBreakdown, "amount"),
                resp.data.summary.totalExpenses) > 10

\* C12: in every Monthly Report whose total is > 0, the sum of the
\* categoryBreakdown percentages differs from 100 by at most 0.1.
C12_PercentagesSum ==
    (MonthlyAnswered /\ resp.data.summary.totalExpenses > 0) =>
        Distance(BreakdownSum(resp.data.summary.categoryBreakdown, "percentage"),
                 100 * 1000) <= 100

\* A Monthly Report with a total > 0 over three categories or more whose
\* rounded percentages do not add up to 100.
C12_Witness ==
    /\ MonthlyAnswered
    /\ resp.data.summary.totalExpenses > 0
    /\ Len(resp.data.summary.categoryBreakdown) >= 3
    /\ BreakdownSum(resp.data.summary.categoryBreakdown, "percentage") # 100 * 1000

\* The create calls of the scenario, as a user makes them.
ScenarioCall(category, amount, day) ==
    [uid |-> ReportUser, body |-> ReportBody(category, amount, IsoDay(2025, 1, day))]

\* The calls issued so far are exactly the given three, on an empty store.
ScenarioIssued(a, b, c) ==
    /\ Len(issued) = 3
    /\ Cardinality({a, b, c}) = 3
    /\ {issued[i] : i \in 1..3} = {a, b, c}

\* Monthly Report(U, 1, 2025) is being answered.
ScenarioMonthly ==
    /\ req.op = "monthly"
    /\ req.uid = ReportUser
    /\ req.query = ("month" :> <<"1">>) @@ ("year" :> <<"2", "0", "2", "5">>)

\* The report of the scenario: total 180, 3 transactions, Food 150 (2, 83.33%)
\* before the second category 30 (1, 16.67%), daily average 5.81.
ScenarioReport(rs, second) ==
    /\ rs.status = 200
    /\ rs.data.summary.totalExpenses = 180 * 1000
    /\ rs.data.summary.totalTransactions = 3
    /\ rs.data.summary.categoryBreakdown =
         << [category |-> "Food", amount |-> 150 * 1000, count |-> 2, percentage |-> 83330],
            [category |-> second, amount |-> 30 * 1000, count |-> 1, percentage |-> 16670] >>
    /\ rs.data.summary.dailyAverage = 5810

\* C13 as stated: after U's create calls {Food,100,2025-01-05},
\* {Food,50,2025-01-20}, {Transport,30,2025-01-10} on an empty store, Monthly
\* Report(U,1,2025) returns total 180, 3 transactions, the breakdown
\* [{Food,150,2,83.33},{Transport,30,1,16.67}] and dailyAverage 5.81.
C13_ScenarioTransport ==
    ( /\ ScenarioIssued(ScenarioCall("Food", <<"1", "0", "0">>, 5),
                        ScenarioCall("Food", <<"5", "0">>, 20),
                        ScenarioCall("Transport", <<"3", "0">>, 10))
      /\ ScenarioMonthly )
    => ScenarioReport(resp, "Transport")

\* C13 amended: with the third call under the category Transportation, Monthly
\* Report(U,1,2025) returns total 180, 3 transactions, the breakdown
\* [{Food,150,2,83.33},{Transportation,30,1,16.67}] and dailyAverage 5.81.
C13_ScenarioTransportation ==
    ( /\ ScenarioIssued(ScenarioCall("Food", <<"1", "0", "0">>, 5),
                        ScenarioCall("Food", <<"5", "0">>, 20),
                        ScenarioCall("Transportation", <<"3", "0">>, 10))
      /\ ScenarioMonthly )
    => ScenarioReport(resp, "Transportation")

\* The three calls of the amended scenario have been made, in the order
\* given, and Monthly Report(U,1,2025) is answered.
C13_Witness ==
    /\ issued = << ScenarioCall("Food", <<"1", "0", "0">>, 5),
                   ScenarioCall("Food", <<"5", "0">>, 20),
                   ScenarioCall("Transportation", <<"3", "0">>, 10) >>
    /\ Cardinality(DOMAIN store) = 3
    /\ ScenarioMonthly
    /\ resp.status = 200

\* A category report has been answered.
CategoryAnswered == req.op = "category" /\ resp.status = 200

\* The caller's records under the category of the report, within its date
\* bounds.
Reported ==
    { store[i] : i \in
        { j \in DOMAIN store :
            /\ store[j].userId = req.uid
            /\ store[j].category = req.query.category
            /\ Has(req.query, "startDate") => store[j].date >= req.query.startDate.at
            /\ Has(req.query, "endDate") => store[j].date <= req.query.endDate.at } }

\* v is num / den to two decimals: a whole number of hundredths, at most half
\* a hundredth away.
IsRounded2(v, num, den) == v % 10 = 0 /\ 2 * Distance(v * den, num) <= 10 * den

\* The records of a set dated within calendar month m of year y
InMonth(docs, y, m) ==
    { d \in docs : MakeDate(y, m - 1, 1, 0, 0, 0) <= d.date
                   /\ d.date < MakeDate(y, m, 1, 0, 0, 0) }

\* The statistics of a report are the reference statistics of a set of
\* records: count, sum, mean, max and min, each to two decimals.
ReferenceStatistics(st, docs) ==
    /\ st.totalExpenses = Cardinality(docs)
    /\ IsRounded2(st.totalAmount, SumOf(docs), 1)
    /\ IF docs = {}
       THEN st.averageAmount = 0 /\ st.maxExpense = 0 /\ st.minExpense = 0
       ELSE /\ IsRounded2(st.averageAmount, SumOf(docs), Cardinality(docs))
            /\ \E d \in docs : /\ IsRounded2(st.maxExpense, d.amount, 1)
                               /\ \A e \in docs : e.amount <= d.amount
            /\ \E d \in docs : /\ IsRounded2(st.minExpense, d.amount, 1)
                               /\ \A e \in docs : e.amount >= d.amount

\* The trend of a report is the reference trend of a set of records: one entry
\* per calendar month that has records, with that month's sum, count and mean,
\* in ascending order of month.
ReferenceTrend(trend, docs) ==
    /\ \A i \in 1..Len(trend) :
         LET of == InMonth(docs, trend[i].month.year, trend[i].month.month)
         IN  /\ of # {}
             /\ trend[i].count = Cardinality(of)
             /\ IsRounded2(trend[i].total, SumOf(of), 1)
             /\ IsRounded2(trend[i].average, SumOf(of), Cardinality(of))
    /\ \A d \in docs : \E i \in 1..Len(trend) :
         d \in InMonth(docs, trend[i].month.year, trend[i].month.month)
    /\ \A i, j \in 1..Len(trend) :
         i < j => \/ trend[i].month.year < trend[j].month.year
                  \/ /\ trend[i].month.year = trend[j].month.year
                     /\ trend[i].month.month < trend[j].month.month

\* The records reported are the scenario's: 100 on 2025-01-05 and 50 on
\* 2025-01-20.
ScenarioFood ==
    /\ req.uid = ReportUser
    /\ req.query = ("category" :> "Food")
    /\ Cardinality(Reported) = 2
    /\ {[amount |-> d.amount, date |-> d.date] : d \in Reported}
         = { [amount |-> 100 * 1000, date |-> IsoDay(2025, 1, 5).at],
             [amount |-> 50 * 1000, date |-> IsoDay(2025, 1, 20).at] }

\* C14: a Category Report equals the reference statistics over the caller's
\* records of the category within the date bounds, count, sum, mean, max and
\* min, with one monthlyTrend entry per calendar month holding the month's sum,
\* count and mean, ascending by month; on the scenario data it gives count 2,
\* total 150, average 75, max 100, min 50 and monthlyTrend [{2025-01, 150, 2, 75}].
C14_CategoryReport ==
    CategoryAnswered =>
        /\ ReferenceStatistics(resp.data.statistics, Reported)
        /\ ReferenceTrend(resp.data.monthlyTrend, Reported)
        /\ ScenarioFood =>
             /\ resp.data.statistics =
                  [totalExpenses |-> 2, totalAmount |-> 150 * 1000,
                   averageAmount |-> 75 * 1000, maxExpense |-> 100 * 1000,
                   minExpense |-> 50 * 1000]
             /\ resp.data.monthlyTrend =
                  << [month |-> [year |-> 2025, month |-> 1], total |-> 150 * 1000,
                      count |-> 2, average |-> 75 * 1000] >>

\* The Category Report for Food is answered on the scenario data.
C14_Witness == CategoryAnswered /\ ScenarioFood

\* A Category Report whose trend spans two months is answered.
C14_TwoMonths == CategoryAnswered /\ Len(resp.data.monthlyTrend) = 2

\* C17: monthly, category and overall-statistics reports, and list and
\* get-by-id, leave the record store unchanged: the same expenses with the same
\* fields are stored before and after the call.
C17_ReadsKeepStore ==
    [][(req = NoRequest /\ req'.op \in {"monthly", "category", "stats", "list", "get"})
         => store' = store]_vars

\* A report, a list or a get-by-id has been answered 200 over a store that
\* holds expenses of the caller.
C17_Witness ==
    /\ req.op \in {"monthly", "category", "stats", "list", "get"}
    /\ resp.status = 200
    /\ \E id \in DOMAIN store : store[id].userId = req.uid

\* ------------------------------------------------- claims: stored expenses

\* C15: after any sequence of successful and rejected create and update
\* requests, every stored expense has amount > 0, a category among the 10
\* labels and a payment method among the 6 labels.
C15_StoredValid ==
    \A id \in DOMAIN store :
        /\ store[id].amount > 0
        /\ store[id].category \in
             {"Food", "Transportation", "Entertainment", "Healthcare", "Shopping",
              "Bills", "Education", "Travel", "Personal", "Other"}
        /\ store[id].paymentMethod \in
             {"Cash", "Credit Card", "Debit Card", "UPI", "Net Banking", "Other"}

\* An update of the caller's own stored expense has just been rejected.
C15_Witness ==
    /\ req.op = "update"
    /\ resp.status = 400
    /\ req.id \in DOMAIN store
    /\ store[req.id].userId = req.uid
    /\ Has(req.body, "category")
    /\ req.body.category \notin Categories

\* ------------------------------------------------------------------- users

\* An email address: the local part without its dots, whether it is written
\* with dots, and the domain.
Email(name, dots, domain) == [name |-> name, dots |-> dots, domain |-> domain]

\* isEmail()
IsEmail(e) == e.name # "" /\ e.domain # ""

\* normalizeEmail(): the dots of a gmail.com local part are dropped.
NormalizeEmail(e) == IF e.domain = "gmail.com" THEN [e EXCEPT !.dots = FALSE] ELSE e

\* A password: its length and the kinds of character it holds.
Password(length, lower, upper, digit) ==
    [length |-> length, lower |-> lower, upper |-> upper, digit |-> digit]

\* validateRegister: the fields of the body it finds fault with.
ValidateRegister(b) ==
    {f \in {"email"} : ~(Has(b, "email") /\ IsEmail(b.email))}
    \cup {f \in {"password"} :
            ~(/\ Has(b, "password")
              /\ b.password.length >= 6
              /\ b.password.lower /\ b.password.upper /\ b.password.digit)}

\* validateLogin: the fields of the body it finds fault with.
ValidateLogin(b) ==
    {f \in {"email"} : ~(Has(b, "email") /\ IsEmail(b.email))}
    \cup {f \in {"password"} : ~(Has(b, "password") /\ b.password.length > 0)}

\* The body as the validators' sanitizers leave it.
SanitizeAuth(b) ==
    [k \in DOMAIN b |-> IF k = "email" THEN NormalizeEmail(b[k]) ELSE b[k]]

\* An error object: its name, its code (0 for none), its statusCode (0 for
\* none).
ErrorOf(name, code, statusCode, message) ==
    [name |-> name, code |-> code, statusCode |-> statusCode, message |-> message]

\* The E11000 duplicate key error of a unique index
DuplicateKey(field) == ErrorOf("MongoServerError", 11000, 0, <<"E11000 duplicate key", field>>)

\* new AppError(message, statusCode) as an error object
NewAppError(message, statusCode) == ErrorOf("Error", 0, statusCode, message)

\* errorHandler: the response to an error passed to next().
ErrorHandler(err) ==
    IF err.name \in {"JsonWebTokenError", "TokenExpiredError"} THEN AppError(err.message, 401)
    ELSE IF err.name = "CastError" THEN AppError(err.message, 400)
    ELSE IF err.code = 11000 THEN AppError(<<err.message[2], "already exists">>, 400)
    ELSE IF err.name = "ValidationError" THEN AppError(err.message, 400)
    ELSE AppError(err.message, IF err.statusCode # 0 THEN err.statusCode ELSE 500)

\* Mutant of User.create: the collection has no unique index.
UserCreateNoIndex(us, doc) == [ok |-> TRUE, users |-> Append(us, doc)]

\* User.create(doc) under the unique indexes on firebaseUid and email: the
\* collection with the document, or the duplicate key error.
UserCreate(us, doc) ==
    IF \E i \in 1..Len(us) : us[i].firebaseUid = doc.firebaseUid
    THEN [ok |-> FALSE, error |-> DuplicateKey("firebaseUid")]
    ELSE IF \E i \in 1..Len(us) : us[i].email = doc.email
    THEN [ok |-> FALSE, error |-> DuplicateKey("email")]
    ELSE [ok |-> TRUE, users |-> Append(us, doc)]

\* User.findOne({ firebaseUid }): the position of the document, 0 for none.
UserFindOne(us, firebaseUid) ==
    IF \E i \in 1..Len(us) : us[i].firebaseUid = firebaseUid
    THEN CHOOSE i \in 1..Len(us) : us[i].firebaseUid = firebaseUid
    ELSE 0

\* admin.auth().verifyIdToken(idToken): the decoded token, or the error code.
VerifyIdToken(idToken, accts) ==
    IF idToken.kind = "valid" /\ idToken.uid \in DOMAIN accts
    THEN [ok |-> TRUE, uid |-> idToken.uid, email |-> accts[idToken.uid]]
    ELSE [ok |-> FALSE,
          code |-> CASE idToken.kind = "expired" -> "auth/id-token-expired"
                     [] idToken.kind = "malformed" -> "auth/argument-error"
                     [] OTHER -> "auth/invalid-id-token"]

\* ------------------------------------------------------ users: the handlers

\* The most register and login requests taken.
MaxAuthCalls == 3

\* A request that has been answered.
Done(c, rs, caught) == [c EXCEPT !.pc = "done", !.resp = rs, !.caught = caught]

\* A request as it arrives, before anything is known of its identity.
Arrived(op, b) ==
    [op |-> op, body |-> b, pc |-> "begin", uid |-> "", email |-> Email("", FALSE, ""),
     resp |-> NoResponse, caught |-> 0]

\* login up to its first query: validateLogin, the idToken check,
\* verifyIdToken and the comparison of the emails.
LoginBegin(c, accts) ==
    IF ValidateLogin(c.body) # {}
    THEN Done(c, ValidationFailed(ValidateLogin(c.body)), 0)
    ELSE LET b == SanitizeAuth(c.body)
         IN  IF ~Has(b, "idToken")
             THEN Done(c, ErrorHandler(NewAppError("ID token is required for login", 400)), 0)
             ELSE LET decodedToken == VerifyIdToken(b.idToken, accts)
                  IN  IF ~decodedToken.ok
                      THEN Done(c, ErrorHandler(NewAppError(
                               CASE decodedToken.code = "auth/id-token-expired" ->
                                        "Token has expired"
                                 [] decodedToken.code = "auth/argument-error" ->
                                        "Invalid token format"
                                 [] OTHER -> "Token verification failed", 401)), 0)
                      ELSE IF decodedToken.email # b.email
                      THEN Done(c, ErrorHandler(NewAppError("Email does not match token", 401)), 0)
                      ELSE [c EXCEPT !.pc = "find", !.uid = decodedToken.uid,
                                     !.email = decodedToken.email]

\* The response of login with the user document found or created.
LoginSuccessful(c, user) ==
    [status |-> 200, message |-> "Login successful",
     data |-> [uid |-> user.firebaseUid, email |-> user.email,
               displayName |-> user.displayName, lastLogin |-> user.lastLogin,
               token |-> c.body.idToken]]

\* The catch block of register and login: next(new AppError(error.message, 500))
Caught(c, error) == Done(c, ErrorHandler(NewAppError(error.message, 500)), error.code)

\* The response of register with the user document created.
Registered(c, user) ==
    [status |-> 201, message |-> "User registered successfully",
     data |-> [uid |-> user.firebaseUid, email |-> user.email,
               displayName |-> user.displayName]]

\* displayName || email.split('@')[0]
DisplayName(b) ==
    IF Has(b, "displayName") /\ b.displayName # "" THEN b.displayName
    ELSE <<b.email.name, b.email.dots>>

\* ------------------------------------------------------- users: the inputs

PlainEmail == Email("a", FALSE, "x.com")

DottedEmail == Email("ab", TRUE, "gmail.com")

NoEmail == Email("a", FALSE, "")

StrongPassword == Password(8, TRUE, TRUE, TRUE)

WeakPassword == Password(8, TRUE, FALSE, FALSE)

\* Bodies of POST /api/register
RegisterBodies ==
    { ("email" :> PlainEmail) @@ ("password" :> StrongPassword),
      ("email" :> DottedEmail) @@ ("password" :> StrongPassword) @@ ("displayName" :> "D"),
      ("email" :> PlainEmail) @@ ("password" :> WeakPassword),
      ("email" :> NoEmail) @@ ("password" :> StrongPassword) }

\* The ID tokens a client holds: one the provider issued for an account, one
\* that has expired, one that is no token.
IdTokens ==
    {[kind |-> "valid", uid |-> u] : u \in Users}
    \cup {[kind |-> "expired"], [kind |-> "malformed"]}

\* Bodies of POST /api/login: as documented, with a password added, with an
\* email written otherwise than its account's, with tokens that do not
\* verify, and without a token.
LoginBodies ==
    { ("email" :> PlainEmail) @@ ("idToken" :> tk) :
        tk \in {[kind |-> "valid", uid |-> u] : u \in Users} }
    \cup { ("email" :> PlainEmail) @@ ("idToken" :> tk) @@ ("password" :> StrongPassword) :
             tk \in IdTokens }
    \cup { ("email" :> DottedEmail) @@ ("idToken" :> [kind |-> "valid", uid |-> "u1"])
             @@ ("password" :> StrongPassword),
           ("email" :> PlainEmail) @@ ("password" :> StrongPassword) }

\* ------------------------------------------------------ users: the actions

\* What the auth routes leave alone.
expenseVars == <<store, nextId, req, resp, born, gone, issued>>

\* No response is on its way out: the event loop sends a response within the
\* step that makes it, before it takes any other step.
NoneAnswered == \A k \in DOMAIN calls : calls[k].pc # "done"

\* An account is made at the identity provider from a client, as the Firebase
\* SDK does on sign-up.
ProviderSignUp(uid, email) ==
    /\ NoneAnswered
    /\ uid \notin DOMAIN accounts
    /\ \A u \in DOMAIN accounts : accounts[u] # email
    /\ accounts' = (uid :> email) @@ accounts
    /\ UNCHANGED <<users, calls, now, tokensValidAfterTime, expenseVars>>

\* POST /api/login arrives: validateLogin and login up to its first query
LoginArrives(body) ==
    /\ NoneAnswered
    /\ now <= MaxAuthCalls
    /\ calls' = (now :> LoginBegin(Arrived("login", body), accounts)) @@ calls
    /\ now' = now + 1
    /\ UNCHANGED <<users, accounts, tokensValidAfterTime, expenseVars>>

\* findOrCreateByFirebaseUid: this.findOne({ firebaseUid })
LoginFind(id) ==
    /\ NoneAnswered
    /\ id \in DOMAIN calls
    /\ calls[id].pc = "find"
    /\ calls' = [calls EXCEPT ![id].pc =
                    IF UserFindOne(users, calls[id].uid) = 0 THEN "create" ELSE "save"]
    /\ UNCHANGED <<users, accounts, tokensValidAfterTime, now, expenseVars>>

\* findOrCreateByFirebaseUid: this.create({ firebaseUid, email, lastLogin })
LoginCreate(id) ==
    /\ NoneAnswered
    /\ id \in DOMAIN calls
    /\ calls[id].pc = "create"
    /\ calls[id].op = "login"
    /\ LET user == [firebaseUid |-> calls[id].uid, email |-> calls[id].email,
                    displayName |-> "", lastLogin |-> now]
           r == UserCreate(users, user)
       IN  IF r.ok
           THEN /\ users' = r.users
                /\ calls' = [calls EXCEPT ![id] = Done(@, LoginSuccessful(@, user), 0)]
           ELSE /\ users' = users
                /\ calls' = [calls EXCEPT ![id] = Caught(@, r.error)]
    /\ UNCHANGED <<accounts, tokensValidAfterTime, now, expenseVars>>

\* findOrCreateByFirebaseUid: user.lastLogin = new Date(); user.save()
LoginSave(id) ==
    /\ NoneAnswered
    /\ id \in DOMAIN calls
    /\ calls[id].pc = "save"
    /\ LET i == UserFindOne(users, calls[id].uid)
           user == [users[i] EXCEPT !.lastLogin = now]
       IN  /\ users' = [users EXCEPT ![i] = user]
           /\ calls' = [calls EXCEPT ![id] = Done(@, LoginSuccessful(@, user), 0)]
    /\ UNCHANGED <<accounts, tokensValidAfterTime, now, expenseVars>>

\* POST /api/register arrives: validateRegister and register up to User.create,
\* admin.auth().createUser giving the account the uid the provider picks.
RegisterArrives(body, uid) ==
    /\ NoneAnswered
    /\ now <= MaxAuthCalls
    /\ uid \notin DOMAIN accounts
    /\ now' = now + 1
    /\ LET c == Arrived("register", body)
           b == SanitizeAuth(body)
       IN  IF ValidateRegister(body) # {}
           THEN /\ calls' = (now :> Done(c, ValidationFailed(ValidateRegister(body)), 0)) @@ calls
                /\ accounts' = accounts
           ELSE IF \E u \in DOMAIN accounts : accounts[u] = b.email
           THEN /\ calls' = (now :> Done(c, ErrorHandler(
                                 NewAppError("Email already registered", 400)), 0)) @@ calls
                /\ accounts' = accounts
           ELSE /\ calls' = (now :> [c EXCEPT !.pc = "create", !.uid = uid,
                                              !.email = b.email]) @@ calls
                /\ accounts' = (uid :> b.email) @@ accounts
    /\ UNCHANGED <<users, tokensValidAfterTime, expenseVars>>

\* register: User.create({ firebaseUid, email, displayName }) and the response
RegisterCreate(id) ==
    /\ NoneAnswered
    /\ id \in DOMAIN calls
    /\ calls[id].pc = "create"
    /\ calls[id].op = "register"
    /\ LET user == [firebaseUid |-> calls[id].uid, email |-> calls[id].email,
                    displayName |-> DisplayName(SanitizeAuth(calls[id].body)),
                    lastLogin |-> 0]
           r == UserCreate(users, user)
       IN  IF r.ok
           THEN /\ users' = r.users
                /\ calls' = [calls EXCEPT ![id] = Done(@, Registered(@, user), 0)]
           ELSE /\ users' = users
                /\ calls' = [calls EXCEPT ![id] = Caught(@, r.error)]
    /\ UNCHANGED <<accounts, tokensValidAfterTime, now, expenseVars>>

\* The response has gone out: the request is over.
EndCall(id) ==
    /\ id \in DOMAIN calls
    /\ calls[id].pc = "done"
    /\ calls' = [k \in DOMAIN calls \ {id} |-> calls[k]]
    /\ UNCHANGED <<users, accounts, tokensValidAfterTime, now, expenseVars>>

NextAuth ==
    \/ \E uid \in Users, email \in {PlainEmail, DottedEmail} : ProviderSignUp(uid, email)
    \/ \E body \in LoginBodies : LoginArrives(body)
    \/ \E id \in 1..MaxAuthCalls : LoginFind(id)
    \/ \E id \in 1..MaxAuthCalls : LoginCreate(id)
    \/ \E id \in 1..MaxAuthCalls : LoginSave(id)
    \/ \E body \in RegisterBodies, uid \in Users : RegisterArrives(body, uid)
    \/ \E id \in 1..MaxAuthCalls : RegisterCreate(id)
    \/ \E id \in 1..MaxAuthCalls : EndCall(id)

SpecAuth == Init /\ [][NextAuth]_vars

\* ---------------------------------------------------------- authentication

\* The Authorization header of a request: absent, of another scheme, Bearer
\* without a token, or Bearer with an ID token. An ID token is told by what
\* admin.auth().verifyIdToken makes of it: the identity it decodes to, or the
\* code of the error it throws.
NoHeader == [scheme |-> "none"]

BasicHeader == [scheme |-> "Basic"]

Bearer(idToken) == [scheme |-> "Bearer", idToken |-> idToken]

EmptyToken == [kind |-> "empty"]

DecodesTo(uid) == [kind |-> "decoded", uid |-> uid]

Throws(code) == [kind |-> "thrown", code |-> code]

\* res.status(401).json({ success: false, message, error })
Unauthorized(message, error) == [status |-> 401, message |-> message, error |-> error]

\* Mutant of verifyFirebaseToken: expiry is not held against a token, which
\* is decoded to its user all the same.
VerifyFirebaseTokenIgnoringExpiry(authHeader) ==
    IF authHeader.scheme # "Bearer"
    THEN [next |-> FALSE,
          resp |-> Unauthorized("Unauthorized: No token provided",
                                "Missing or invalid Authorization header")]
    ELSE IF authHeader.idToken = EmptyToken
    THEN [next |-> FALSE,
          resp |-> Unauthorized("Unauthorized: Invalid token format",
                                "Token is empty or malformed")]
    ELSE IF authHeader.idToken.kind = "decoded"
    THEN [next |-> TRUE, uid |-> authHeader.idToken.uid]
    ELSE IF authHeader.idToken.code = "auth/id-token-expired"
    THEN [next |-> TRUE, uid |-> "u1"]
    ELSE [next |-> FALSE,
          resp |-> Unauthorized("Unauthorized: Authentication failed", "error.message")]

\* verifyFirebaseToken: whether the request goes on to the route, as which
\* user, and the response if it does not.
VerifyFirebaseToken(authHeader) ==
    IF authHeader.scheme # "Bearer"
    THEN [next |-> FALSE,
          resp |-> Unauthorized("Unauthorized: No token provided",
                                "Missing or invalid Authorization header")]
    ELSE IF authHeader.idToken = EmptyToken
    THEN [next |-> FALSE,
          resp |-> Unauthorized("Unauthorized: Invalid token format",
                                "Token is empty or malformed")]
    ELSE IF authHeader.idToken.kind = "decoded"
    THEN [next |-> TRUE, uid |-> authHeader.idToken.uid]
    ELSE [next |-> FALSE,
          resp |->
              CASE authHeader.idToken.code = "auth/id-token-expired" ->
                       Unauthorized("Unauthorized: Token has expired",
                                    "Please login again to get a new token")
                [] authHeader.idToken.code = "auth/id-token-revoked" ->
                       Unauthorized("Unauthorized: Token has been revoked",
                                    "Please login again")
                [] authHeader.idToken.code = "auth/argument-error" ->
                       Unauthorized("Unauthorized: Invalid token", "Token format is invalid")
                [] OTHER ->
                       Unauthorized("Unauthorized: Authentication failed", "error.message")]

\* req.user.uid as verifyFirebaseToken leaves it for the route; only a request
\* that verifyFirebaseToken passes on has one.
ReqUser(authHeader) == VerifyFirebaseToken(authHeader).uid

\* router.use(verifyFirebaseToken) before a route: the store and the response
\* of the route as the user the token decodes to, or the store as it is and
\* the response of verifyFirebaseToken.
Protected(authHeader, s, route) ==
    LET verified == VerifyFirebaseToken(authHeader)
    IN  IF verified.next THEN route ELSE [store |-> s, resp |-> verified.resp]

\* The headers requests come with.
AuthHeaders ==
    {NoHeader, BasicHeader, Bearer(EmptyToken), Bearer(DecodesTo("u1")), Bearer(DecodesTo("u2"))}
    \cup {Bearer(Throws(code)) :
            code \in {"auth/id-token-expired", "auth/id-token-revoked",
                      "auth/argument-error", "auth/invalid-id-token"}}

\* Bodies of POST and PUT, one the validators pass and one they reject.
GateBodies == { ("title" :> Str(0, "b", 1, 0)) @@ ("amount" :> <<"7", ".", "5">>)
                  @@ ("category" :> "Other"),
                ("amount" :> <<"-", "5">>) }

\* Queries of the report routes, one the validators pass and one they reject.
GateQueries ==
    { ("month" :> <<"1">>) @@ ("year" :> <<"2", "0", "2", "5">>) @@ ("category" :> "Other"),
      <<>> }

\* A request to a protected route arrives with its Authorization header.
\* GET /api/expenses
GateList(authHeader, q) ==
    /\ req = NoRequest
    /\ req' = [op |-> "list", authHeader |-> authHeader, query |-> q]
    /\ LET r == Protected(authHeader, store,
                          [store |-> store, resp |-> GetAllExpenses(store, ReqUser(authHeader), q)])
       IN  resp' = r.resp /\ store' = r.store
    /\ UNCHANGED <<nextId, now, born, gone, issued, authVars>>

\* GET /api/expenses/:id
GateGet(authHeader, id) ==
    /\ req = NoRequest
    /\ req' = [op |-> "get", authHeader |-> authHeader, id |-> id]
    /\ LET r == Protected(authHeader, store,
                          [store |-> store, resp |-> RouteGet(store, ReqUser(authHeader), id)])
       IN  resp' = r.resp /\ store' = r.store
    /\ UNCHANGED <<nextId, now, born, gone, issued, authVars>>

\* POST /api/expenses
GatePost(authHeader, body) ==
    /\ req = NoRequest
    /\ nextId <= MaxExpenses
    /\ now <= MaxClock
    /\ req' = [op |-> "create", authHeader |-> authHeader, body |-> body]
    /\ LET r == Protected(authHeader, store,
                          RoutePost(store, ReqUser(authHeader), body, nextId, now))
       IN  /\ resp' = r.resp
           /\ store' = r.store
           /\ nextId' = IF r.resp.status = 201 THEN nextId + 1 ELSE nextId
           /\ now' = IF r.resp.status = 201 THEN now + 1 ELSE now
           /\ born' = IF r.resp.status = 201 THEN (nextId :> r.resp.data) @@ born ELSE born
    /\ UNCHANGED <<gone, issued, authVars>>

\* PUT /api/expenses/:id
GatePut(authHeader, id, body) ==
    /\ req = NoRequest
    /\ now <= MaxClock
    /\ req' = [op |-> "update", authHeader |-> authHeader, id |-> id, body |-> body]
    /\ LET r == Protected(authHeader, store,
                          RoutePut(store, ReqUser(authHeader), id, body, now))
       IN  /\ resp' = r.resp
           /\ store' = r.store
           /\ now' = IF r.store # store THEN now + 1 ELSE now
    /\ UNCHANGED <<nextId, born, gone, issued, authVars>>

\* DELETE /api/expenses/:id
GateDelete(authHeader, id) ==
    /\ req = NoRequest
    /\ req' = [op |-> "delete", authHeader |-> authHeader, id |-> id]
    /\ LET r == Protected(authHeader, store, RouteDelete(store, ReqUser(authHeader), id))
       IN  /\ resp' = r.resp
           /\ store' = r.store
           /\ gone' = IF r.resp.status = 200 THEN gone \cup {id} ELSE gone
    /\ UNCHANGED <<nextId, now, born, issued, authVars>>

\* GET /api/reports/monthly
GateMonthly(authHeader, q) ==
    /\ req = NoRequest
    /\ req' = [op |-> "monthly", authHeader |-> authHeader, query |-> q]
    /\ LET r == Protected(authHeader, store,
                          [store |-> store, resp |-> RouteMonthly(store, ReqUser(authHeader), q)])
       IN  resp' = r.resp /\ store' = r.store
    /\ UNCHANGED <<nextId, now, born, gone, issued, authVars>>

\* GET /api/reports/category
GateCategory(authHeader, q) ==
    /\ req = NoRequest
    /\ req' = [op |-> "category", authHeader |-> authHeader, query |-> q]
    /\ LET r == Protected(authHeader, store,
                          [store |-> store, resp |-> RouteCategory(store, ReqUser(authHeader), q)])
       IN  resp' = r.resp /\ store' = r.store
    /\ UNCHANGED <<nextId, now, born, gone, issued, authVars>>

\* GET /api/reports/stats
GateStats(authHeader, q) ==
    /\ req = NoRequest
    /\ req' = [op |-> "stats", authHeader |-> authHeader, query |-> q]
    /\ LET r == Protected(authHeader, store,
                          [store |-> store, resp |-> RouteStats(store, ReqUser(authHeader), q)])
       IN  resp' = r.resp /\ store' = r.store
    /\ UNCHANGED <<nextId, now, born, gone, issued, authVars>>

NextGate ==
    \/ \E h \in AuthHeaders : GateList(h, <<>>)
    \/ \E h \in AuthHeaders, id \in {1, MalformedId} : GateGet(h, id)
    \/ \E h \in AuthHeaders, body \in GateBodies : GatePost(h, body)
    \/ \E h \in AuthHeaders, id \in {1, MalformedId}, body \in GateBodies : GatePut(h, id, body)
    \/ \E h \in AuthHeaders, id \in {1, MalformedId} : GateDelete(h, id)
    \/ \E h \in AuthHeaders, q \in GateQueries : GateMonthly(h, q)
    \/ \E h \in AuthHeaders, q \in GateQueries : GateCategory(h, q)
    \/ \E h \in AuthHeaders : GateStats(h, <<>>)
    \/ EndRequest

SpecGate == Init /\ [][NextGate]_vars

\* -------------------------------------------------- claims: authentication

\* The credential of a request is missing or fails verification.
Refused(authHeader) ==
    \/ authHeader.scheme # "Bearer"
    \/ authHeader.idToken.kind # "decoded"

\* The route of the request in hand would have rejected its input, had it run.
WouldNotValidate ==
    CASE req.op \in {"create", "update"} -> ~Has(req.body, "title")
      [] req.op \in {"get", "delete"} -> req.id = MalformedId
      [] req.op \in {"monthly", "category"} -> req.query = <<>>
      [] OTHER -> FALSE

\* C20: every request to an expense or report route whose credential is
\* missing or fails verification is answered 401 with nothing but the reason,
\* where validation would have answered 400 and the handler otherwise, and the
\* store is left as it is.
C20_Unauthenticated ==
    [][(req = NoRequest /\ req' # NoRequest /\ Refused(req'.authHeader))
         => /\ resp'.status = 401
            /\ DOMAIN resp' = {"status", "message", "error"}
            /\ store' = store
            /\ nextId' = nextId]_vars

\* A request with a token that fails verification is answered 401 where its
\* route would have answered 400, over a store that holds expenses.
C20_Witness ==
    /\ req # NoRequest
    /\ req.authHeader.scheme = "Bearer"
    /\ req.authHeader.idToken.kind = "thrown"
    /\ WouldNotValidate
    /\ resp.status = 401
    /\ store # <<>>

\* ----------------------------------------------------------- claims: users

\* C16: after any sequence and any interleaving of register and login
\* operations no two stored User records have the same identifier and no two
\* have the same email, and no step removes a User record.
C16_UsersUnique ==
    /\ [](\A i, j \in 1..Len(users) :
            i # j => /\ users[i].firebaseUid # users[j].firebaseUid
                     /\ users[i].email # users[j].email)
    /\ [][\A i \in 1..Len(users) :
            \E j \in 1..Len(users') : users'[j].firebaseUid = users[i].firebaseUid]_vars

\* Two User records are stored, and a request that met the record of another
\* request in its way has been answered.
C16_Witness ==
    /\ Len(users) = 2
    /\ \E id \in DOMAIN calls : calls[id].pc = "done" /\ calls[id].caught = 11000

\* C18: whenever a register or login request meets a duplicate unique field
\* in the user store, it is answered with status 400.
C18_DuplicateIs400 ==
    \A id \in DOMAIN calls :
        (calls[id].pc = "done" /\ calls[id].caught = 11000) => calls[id].resp.status = 400

\* The request of number id is answered in this step.
Answering(id) ==
    /\ id \in DOMAIN calls'
    /\ calls'[id].pc = "done"
    /\ id \in DOMAIN calls => calls[id].pc # "done"

\* C19: a POST /api/login whose body is {email, idToken}, the token verifying
\* and carrying the body's email, is answered 200 'Login successful' and
\* leaves a User record of that identity whose lastLogin is the time of the
\* login.
C19_DocumentedLogin ==
    [][\A id \in 1..MaxAuthCalls :
         ( /\ Answering(id)
           /\ calls'[id].op = "login"
           /\ DOMAIN calls'[id].body = {"email", "idToken"}
           /\ calls'[id].body.idToken.kind = "valid"
           /\ calls'[id].body.idToken.uid \in DOMAIN accounts
           /\ accounts[calls'[id].body.idToken.uid] = calls'[id].body.email )
         => /\ calls'[id].resp.status = 200
            /\ calls'[id].resp.message = "Login successful"
            /\ \E i \in 1..Len(users') :
                 /\ users'[i].firebaseUid = calls'[id].body.idToken.uid
                 /\ users'[i].lastLogin = now]_vars

\* ------------------------------------------------- claims: deleted expenses

\* A delete has just been answered 200.
Deleted == req = NoRequest /\ req'.op = "delete" /\ resp'.status = 200

WindowDates ==
    { MakeDate(2025, 0, 1, 0, 0, 0) - 1,
      MakeDate(2025, 0, 1, 0, 0, 0),
      MakeDate(2025, 0, 31, 23, 59, 59),
      MakeDate(2025, 0, 31, 23, 59, 59) + 1,
      MakeDate(2025, 1, 1, 0, 0, 0),
      MakeDate(2024, 1, 29, 12, 0, 0) }

\* Queries of GET /api/reports/monthly for January 2025 and February 2024.
WindowQueries ==
    { ("month" :> <<"1">>) @@ ("year" :> <<"2", "0", "2", "5">>),
      ("month" :> <<"2">>) @@ ("year" :> <<"2", "0", "2", "4">>) }

\* The recording user creates expenses dated at the ends of months, the other
\* user one inside January, and both ask for monthly reports.
NextWindow ==
    \/ \E t \in WindowDates : PostForReport(ReportUser, ReportBody("Food", <<"1">>, Iso(t)))
    \/ \E uid \in Users \ {ReportUser} :
           PostForReport(uid, ReportBody("Bills", <<"2">>, IsoDay(2025, 1, 31)))
    \/ \E uid \in Users : \E q \in WindowQueries : MonthlyReport(uid, q)
    \/ EndRequest

SpecWindow == Init /\ [][NextWindow]_vars

\* ------------------------------------------------- claims: the monthly window

\* The caller's records dated within the calendar month a monthly report was
\* asked for.
OfTheMonth ==
    InMonth({store[i] : i \in {j \in DOMAIN store : store[j].userId = req.uid}},
            ParseInt(req.query.year), ParseInt(req.query.month))

\* C22. A monthly report counts exactly the caller's records dated from the
\* first instant of the month through the last instant of its last day: its
\* expense list holds those records and no others, and totalTransactions and
\* the counts of the breakdown add up to their number.
C22_WholeMonth ==
    MonthlyAnswered =>
        /\ {resp.data.expenses[i]._id : i \in 1..Len(resp.data.expenses)}
               = {d._id : d \in OfTheMonth}
        /\ resp.data.summary.totalTransactions = Cardinality(OfTheMonth)
        /\ BreakdownSum(resp.data.summary.categoryBreakdown, "count")
               = Cardinality(OfTheMonth)

\* ------------------------------------------------ claims: overall statistics

\* Overall statistics have been answered.
StatsAnswered == req.op = "stats" /\ resp.status = 200

\* The caller's records within the date bounds of the query.
InBounds ==
    { store[i] : i \in
        { j \in DOMAIN store :
            /\ store[j].userId = req.uid
            /\ Has(req.query, "startDate") => store[j].date >= req.query.startDate.at
            /\ Has(req.query, "endDate") => store[j].date <= req.query.endDate.at } }

\* C23. Overall Statistics returns, for every date filter, an overall block
\* equal to count, sum, mean, max and min of the caller's records in the
\* bounds, each amount to two decimals, and all five values are 0 when no
\* record matches.
C23_OverallBlock ==
    StatsAnswered =>
        LET overall == resp.data.overall
        IN  /\ DOMAIN overall = {"totalExpenses", "totalAmount", "averageAmount",
                                 "maxAmount", "minAmount"}
            /\ overall.totalExpenses = Cardinality(InBounds)
            /\ IsRounded2(overall.totalAmount, SumOf(InBounds), 1)
            /\ IF InBounds = {}
               THEN \A k \in DOMAIN overall : overall[k] = 0
               ELSE /\ IsRounded2(overall.averageAmount, SumOf(InBounds),
                                  Cardinality(InBounds))
                    /\ \E d \in InBounds : /\ IsRounded2(overall.maxAmount, d.amount, 1)
                                           /\ \A e \in InBounds : e.amount <= d.amount
                    /\ \E d \in InBounds : /\ IsRounded2(overall.minAmount, d.amount, 1)
                                           /\ \A e \in InBounds : e.amount >= d.amount

\* Statistics over three records of different amounts, within a lower bound
\* that leaves a fourth record out, have been answered.
C23_Witness ==
    /\ StatsAnswered
    /\ Has(req.query, "startDate")
    /\ Cardinality({d.amount : d \in InBounds}) = 3
    /\ Cardinality(DOMAIN store) = 4

\* Statistics within bounds that leave out every record the caller has have
\* been answered.
C23_NoneMatch ==
    /\ StatsAnswered
    /\ InBounds = {}
    /\ \E i \in DOMAIN store : store[i].userId = req.uid

\* ------------------------------------------- expenses: requests that overlap
\* A handler runs up to its first await and from each await to the next in one
\* piece; between two awaits of one request the queries of other requests reach
\* the database. calls holds the requests in arrival order, each with what its
\* handler keeps between awaits: the document findOne loaded, or the
\* collection as the queries answered so far met it.

\* The most requests that overlap
MaxRaceCalls == 3

\* A request with its handler at pc.
Call(op, uid, id, body, pc, rs) ==
    [op |-> op, uid |-> uid, id |-> id, body |-> body, pc |-> pc, resp |-> rs,
     loaded |-> Null, seen |-> <<>>, caught |-> ""]

\* The paths of a loaded document that were set to other values: the paths
\* save() writes.
ModifiedPaths(loaded, expense) == {k \in DOMAIN expense : expense[k] # loaded[k]}

\* Mutant of SaveLoaded: updateOne with upsert, which inserts the document
\* when the query finds none.
SaveUpserting(s, loaded, updates, t) ==
    LET expense == Save(loaded, ApplyUpdates(loaded, updates), t)
    IN  [store |-> (loaded._id :> expense) @@ s,
         resp |-> [status |-> 200, message |-> "Expense updated successfully",
                   data |-> expense],
         caught |-> ""]

\* Mutant of SaveLoaded: optimistic concurrency, the save of a document that
\* is no longer as it was loaded throws VersionError.
SaveVersioned(s, loaded, updates, t) ==
    LET expense == Save(loaded, ApplyUpdates(loaded, updates), t)
        id == loaded._id
    IN  IF id \in DOMAIN s /\ s[id] = loaded /\ SchemaValid(expense)
        THEN [store |-> [s EXCEPT ![id] = expense],
              resp |-> [status |-> 200, message |-> "Expense updated successfully",
                        data |-> expense],
              caught |-> ""]
        ELSE [store |-> s, resp |-> AppError("No matching document found", 500),
              caught |-> "VersionError"]

\* expense.save() of a document loaded earlier, on the collection s as it is
\* now, and the rest of updateExpense: validation, then
\* updateOne({ _id }, { $set: the modified paths }), which throws
\* DocumentNotFoundError when it matches no document.
SaveLoaded(s, loaded, updates, t) ==
    LET expense == Save(loaded, ApplyUpdates(loaded, updates), t)
        id == loaded._id
    IN  IF ~SchemaValid(expense)
        THEN [store |-> s, resp |-> AppError("Expense validation failed", 500),
              caught |-> "ValidationError"]
        ELSE IF id \notin DOMAIN s
        THEN [store |-> s, resp |-> AppError("No document found for query", 500),
              caught |-> "DocumentNotFoundError"]
        ELSE [store |-> [s EXCEPT ![id] =
                            [k \in DOMAIN s[id] |->
                                IF k \in ModifiedPaths(loaded, expense)
                                THEN expense[k] ELSE s[id][k]]],
              resp |-> [status |-> 200, message |-> "Expense updated successfully",
                        data |-> expense],
              caught |-> ""]

\* POST /api/expenses: createExpense has one query, the insert.
RaceCreate(uid, body) ==
    /\ Len(calls) < MaxRaceCalls
    /\ LET r == RoutePost(store, uid, body, nextId, now)
       IN  /\ calls' = Append(calls, Call("create", uid, nextId, body, "done", r.resp))
           /\ store' = r.store
           /\ nextId' = IF r.resp.status = 201 THEN nextId + 1 ELSE nextId
           /\ now' = IF r.resp.status = 201 THEN now + 1 ELSE now
           /\ born' = IF r.resp.status = 201 THEN (nextId :> r.resp.data) @@ born ELSE born
    /\ UNCHANGED <<req, resp, gone, issued, identityVars>>

\* DELETE /api/expenses/:id: deleteExpense has one query, findOneAndDelete.
RaceDelete(uid, id) ==
    /\ Len(calls) < MaxRaceCalls
    /\ LET r == RouteDelete(store, uid, id)
       IN  /\ calls' = Append(calls, Call("delete", uid, id, <<>>, "done", r.resp))
           /\ store' = r.store
           /\ gone' = IF r.resp.status = 200 THEN gone \cup {id} ELSE gone
    /\ UNCHANGED <<req, resp, nextId, now, born, issued, identityVars>>

\* PUT /api/expenses/:id arrives: the validators, and updateExpense up to
\* Expense.findOne({ _id: id, userId: uid }).
UpdateArrives(uid, id, body) ==
    /\ Len(calls) < MaxRaceCalls
    /\ calls' = Append(calls,
          IF ValidateObjectId(id) # {}
          THEN Call("update", uid, id, body, "done", ValidationFailed(ValidateObjectId(id)))
          ELSE IF ValidateUpdateExpense(body) # {}
          THEN Call("update", uid, id, body, "done",
                    ValidationFailed(ValidateUpdateExpense(body)))
          ELSE IF FindOne(store, id, uid) = Null
          THEN Call("update", uid, id, body, "done", NotFound)
          ELSE [Call("update", uid, id, body, "save", NoResponse)
                    EXCEPT !.loaded = FindOne(store, id, uid)])
    /\ UNCHANGED <<req, resp, store, nextId, now, born, gone, issued, identityVars>>

\* updateExpense from the update loop on: expense.save() and the response.
UpdateSave(k) ==
    /\ k \in DOMAIN calls
    /\ calls[k].op = "update"
    /\ calls[k].pc = "save"
    /\ LET r == SaveLoaded(store, calls[k].loaded, Sanitize(calls[k].body), now)
       IN  /\ calls' = [calls EXCEPT ![k].pc = "done", ![k].resp = r.resp,
                                     ![k].caught = r.caught, ![k].seen = <<store>>]
           /\ store' = r.store
           /\ now' = IF r.store # store THEN now + 1 ELSE now
    /\ UNCHANGED <<req, resp, nextId, born, gone, issued, identityVars>>

\* GET /api/reports/monthly arrives: validateMonthlyReport, and
\* getMonthlyReport up to the aggregation of getMonthlySummary.
MonthlyArrives(uid, q) ==
    /\ Len(calls) < MaxRaceCalls
    /\ calls' = Append(calls,
          IF ValidateMonthlyReport(q) # {}
          THEN Call("monthly", uid, 0, q, "done", ValidationFailed(ValidateMonthlyReport(q)))
          ELSE [Call("monthly", uid, 0, q, "find", NoResponse) EXCEPT !.seen = <<store>>])
    /\ UNCHANGED <<req, resp, store, nextId, now, born, gone, issued, identityVars>>

\* getMonthlyReport from Expense.find on, and the response.
MonthlyFind(k) ==
    /\ k \in DOMAIN calls
    /\ calls[k].op = "monthly"
    /\ calls[k].pc = "find"
    /\ calls' = [calls EXCEPT
          ![k].pc = "done",
          ![k].seen = Append(@, store),
          ![k].resp = GetMonthlyReportOver(calls[k].seen[1], store, calls[k].uid,
                          ParseInt(calls[k].body.month), ParseInt(calls[k].body.year))]
    /\ UNCHANGED <<req, resp, store, nextId, now, born, gone, issued, identityVars>>

\* GET /api/reports/stats arrives: getOverallStats up to its first aggregation.
StatsArrives(uid, q) ==
    /\ Len(calls) < MaxRaceCalls
    /\ calls' = Append(calls,
          [Call("stats", uid, 0, q, "category", NoResponse) EXCEPT !.seen = <<store>>])
    /\ UNCHANGED <<req, resp, store, nextId, now, born, gone, issued, identityVars>>

\* getOverallStats: the aggregation by category.
StatsCategory(k) ==
    /\ k \in DOMAIN calls
    /\ calls[k].op = "stats"
    /\ calls[k].pc = "category"
    /\ calls' = [calls EXCEPT ![k].pc = "payment", ![k].seen = Append(@, store)]
    /\ UNCHANGED <<req, resp, store, nextId, now, born, gone, issued, identityVars>>

\* getOverallStats: the aggregation by payment method, and the response.
StatsPayment(k) ==
    /\ k \in DOMAIN calls
    /\ calls[k].op = "stats"
    /\ calls[k].pc = "payment"
    /\ calls' = [calls EXCEPT
          ![k].pc = "done",
          ![k].seen = Append(@, store),
          ![k].resp = GetOverallStatsOver(calls[k].seen[1], calls[k].seen[2], store,
                                          calls[k].uid, calls[k].body)]
    /\ UNCHANGED <<req, resp, store, nextId, now, born, gone, issued, identityVars>>

\* The expense every request is about: Food, 10, paid in the default way, on
\* 2025-01-05; and a second one under Bills, 30, on 2025-01-20.
RaceBodies ==
    { ReportBody("Food", <<"1", "0">>, IsoDay(2025, 1, 5)),
      ReportBody("Bills", <<"3", "0">>, IsoDay(2025, 1, 20)) }

\* Two updates that each set one field to another value and one field to the
\* value the expense was created with.
RaceUpdates ==
    { ("category" :> "Bills") @@ ("paymentMethod" :> "Other"),
      ("category" :> "Food") @@ ("paymentMethod" :> "Cash") }

NextRace ==
    \/ \E body \in RaceBodies : RaceCreate(ReportUser, body)
    \/ RaceDelete(ReportUser, 1)
    \/ \E body \in RaceUpdates : UpdateArrives(ReportUser, 1, body)
    \/ \E k \in 1..(MaxRaceCalls + 1) : UpdateSave(k)
    \/ MonthlyArrives(ReportUser, ("month" :> <<"1">>) @@ ("year" :> <<"2", "0", "2", "5">>))
    \/ \E k \in 1..(MaxRaceCalls + 1) : MonthlyFind(k)
    \/ StatsArrives(ReportUser, <<>>)
    \/ \E k \in 1..(MaxRaceCalls + 1) : StatsCategory(k)
    \/ \E k \in 1..(MaxRaceCalls + 1) : StatsPayment(k)

SpecRace == Init /\ [][NextRace]_vars

\* ------------------------------------------ claims: requests that overlap

\* The fields of a record a client sets.
Fields(d) == [k \in AllowedUpdates |-> d[k]]

\* The record after two updates of it, one after the other from load to save.
SerialResult(orig, first, second) ==
    LET id == orig._id
        one == UpdateExpense((id :> orig), orig.userId, id, Sanitize(first), now).store
    IN  UpdateExpense(one, orig.userId, id, Sanitize(second), now).store[id]

\* Calls a and b are the only updates of a record, with different bodies, both
\* loaded it before either saved, both are over, and nothing deleted it.
Racing(a, b) ==
    /\ a < b
    /\ calls[a].op = "update" /\ calls[b].op = "update"
    /\ calls[a].pc = "done" /\ calls[b].pc = "done"
    /\ calls[a].loaded # Null
    /\ calls[a].loaded = calls[b].loaded
    /\ calls[a].body # calls[b].body
    /\ calls[a].id \notin gone
    /\ \A c \in DOMAIN calls \ {a, b} : calls[c].op # "update"

\* The record two racing updates leave is the result of neither serial order.
LostUpdate(a, b) ==
    LET orig == calls[a].loaded
        final == Fields(store[orig._id])
    IN  /\ final # Fields(SerialResult(orig, calls[a].body, calls[b].body))
        /\ final # Fields(SerialResult(orig, calls[b].body, calls[a].body))

\* C24. A lost-update race is possible and nothing guards against it: when
\* two updates of an expense (Food, paid Other), one to {Bills, Other} and one
\* to {Food, Cash}, both load it before either saves, both answer 200 and the
\* stored record equals the result of neither serial order of the two.
C24_LostUpdate ==
    \A a, b \in DOMAIN calls :
        (/\ Racing(a, b)
         /\ calls[a].loaded.category = "Food"
         /\ calls[a].loaded.paymentMethod = "Other") =>
            /\ calls[a].resp.status = 200
            /\ calls[b].resp.status = 200
            /\ LostUpdate(a, b)

\* Two racing updates are over; the record has the category of one and the
\* payment method of the other.
C24_Witness ==
    \E a, b \in DOMAIN calls :
        /\ Racing(a, b)
        /\ calls[a].resp.status = 200
        /\ calls[b].resp.status = 200
        /\ LostUpdate(a, b)
        /\ store[calls[a].id].category = "Bills"
        /\ store[calls[a].id].paymentMethod = "Cash"

\* The percentages of a breakdown are finite numbers in (0, 100].
Shares(entries) ==
    \A i \in 1..Len(entries) :
        /\ entries[i].percentage # Infinity
        /\ 0 < entries[i].percentage
        /\ entries[i].percentage <= 100 * 1000

\* C25. No percentage is computed with a zero denominator: in every Monthly
\* Report and every Overall Statistics response, also when the caller's
\* creates and deletes run between the queries of the report, a breakdown
\* entry appears only together with a total > 0 and its percentage is a finite
\* number in (0, 100].
C25_NoZeroDenominator ==
    \A k \in DOMAIN calls :
        (calls[k].pc = "done" /\ calls[k].resp.status = 200) =>
            /\ calls[k].op = "monthly" =>
                 LET summary == calls[k].resp.data.summary
                 IN  /\ summary.categoryBreakdown # <<>> => summary.totalExpenses > 0
                     /\ Shares(summary.categoryBreakdown)
            /\ calls[k].op = "stats" =>
                 LET data == calls[k].resp.data
                 IN  /\ (data.categoryBreakdown # <<>> \/ data.paymentMethodBreakdown # <<>>)
                            => data.overall.totalAmount > 0
                     /\ Shares(data.categoryBreakdown)
                     /\ Shares(data.paymentMethodBreakdown)

\* C26. In every Monthly Report response summary.totalTransactions is the
\* number of records in the expenses list, and the category of every listed
\* record appears in categoryBreakdown, also when creates, updates or deletes
\* of the same user run between the queries of the report.
C26_ListMatchesSummary ==
    \A k \in DOMAIN calls :
        (calls[k].op = "monthly" /\ calls[k].pc = "done" /\ calls[k].resp.status = 200) =>
            LET data == calls[k].resp.data
            IN  /\ data.summary.totalTransactions = Len(data.expenses)
                /\ \A i \in 1..Len(data.expenses) :
                     \E j \in 1..Len(data.summary.categoryBreakdown) :
                         data.summary.categoryBreakdown[j].category
                             = data.expenses[i].category

\* Update call u loaded a record that delete call d, arriving after the load,
\* deleted before the save of u met the collection; both are over.
DeletedBetween(u, d) ==
    /\ calls[u].op = "update" /\ calls[u].pc = "done" /\ calls[u].loaded # Null
    /\ calls[d].op = "delete" /\ calls[d].pc = "done" /\ calls[d].resp.status = 200
    /\ calls[d].id = calls[u].id
    /\ u < d
    /\ calls[u].id \notin DOMAIN calls[u].seen[1]

\* C27. If a delete of record r succeeds between an update's load of r and
\* that update's save, r is absent from the store once both requests are over:
\* the update does not create the record anew.
C27_NoRecreate ==
    \A u, d \in DOMAIN calls :
        DeletedBetween(u, d) => calls[u].id \notin DOMAIN store

\* An update whose record was deleted between its load and its save is over,
\* answered 500 after DocumentNotFoundError.
C27_Witness ==
    \E u, d \in DOMAIN calls :
        /\ DeletedBetween(u, d)
        /\ calls[u].caught = "DocumentNotFoundError"
        /\ calls[u].resp.status = 500
        /\ calls[u].id \in gone

\* ------------------------------------------------------------------ sessions
\* An ID token the provider minted for an account carries the account's uid
\* and the instant it was minted at. revokeRefreshTokens moves the account's
\* tokensValidAfterTime to the present; the tokens minted before stay as they
\* are until they expire, and verifyIdToken holds the revocation against them
\* only when it is asked to check it.

\* admin.auth().verifyIdToken(idToken, checkRevoked) on a token that is
\* neither expired nor malformed: what it decodes to, or what it throws.
AdminVerifyIdToken(idToken, checkRevoked, validAfter) ==
    IF /\ checkRevoked
       /\ idToken.uid \in DOMAIN validAfter
       /\ idToken.iat < validAfter[idToken.uid]
    THEN Throws("auth/id-token-revoked")
    ELSE DecodesTo(idToken.uid) @@ [iat |-> idToken.iat]

\* The Authorization header with an ID token, as the verifyIdToken(idToken) of
\* verifyFirebaseToken, which passes no checkRevoked, makes it out.
BearerToken(idToken) == Bearer(AdminVerifyIdToken(idToken, FALSE, tokensValidAfterTime))

\* The ID tokens minted so far for the two accounts.
Minted == { [uid |-> uid, iat |-> iat] : uid \in Users, iat \in 1..now }

\* POST /api/logout: verifyFirebaseToken, then logout, which revokes the
\* refresh tokens of the caller and answers with the account's
\* tokensValidAfterTime.
Logout(idToken) ==
    /\ req = NoRequest
    /\ now <= MaxClock
    /\ req' = [op |-> "logout", authHeader |-> BearerToken(idToken)]
    /\ LET verified == VerifyFirebaseToken(BearerToken(idToken))
       IN  IF verified.next
           THEN /\ tokensValidAfterTime' = (verified.uid :> now) @@ tokensValidAfterTime
                /\ now' = now + 1
                /\ resp' = [status |-> 200,
                            message |-> "Logout successful. All refresh tokens have been revoked.",
                            data |-> [uid |-> verified.uid, tokensValidAfterTime |-> now]]
           ELSE /\ resp' = verified.resp
                /\ UNCHANGED <<tokensValidAfterTime, now>>
    /\ UNCHANGED <<store, nextId, born, gone, issued, users, accounts, calls>>

\* The accounts log out and send requests to the protected routes with the
\* tokens minted for them.
NextSession ==
    \/ \E idToken \in Minted : Logout(idToken)
    \/ \E idToken \in Minted : GateList(BearerToken(idToken), <<>>)
    \/ \E idToken \in Minted : \E body \in GateBodies : GatePost(BearerToken(idToken), body)
    \/ \E idToken \in Minted : GateDelete(BearerToken(idToken), 1)
    \/ EndRequest

SpecSession == Init /\ [][NextSession]_vars

\* ---------------------------------------------------------- claims: sessions

\* The request being answered presents a token minted for an account before
\* the account's last logout.
PresentsRevoked ==
    /\ req = NoRequest
    /\ req'.op \in {"list", "create", "delete"}
    /\ req'.authHeader.idToken.kind = "decoded"
    /\ req'.authHeader.idToken.uid \in DOMAIN tokensValidAfterTime
    /\ req'.authHeader.idToken.iat < tokensValidAfterTime[req'.authHeader.idToken.uid]

\* C28. After a successful logout by user U, every later request to a
\* protected route that presents an ID token issued to U before the logout is
\* rejected with 401, 'Token has been revoked', and its handler does not run.
C28_RevokedRejected ==
    [][PresentsRevoked =>
          /\ resp'.status = 401
          /\ resp'.message = "Unauthorized: Token has been revoked"
          /\ store' = store
      ]_vars

\* ------------------------------------------------ users: logins on their own

\* Accounts made with the client SDK, and logins: no register request.
NextLogins ==
    \/ \E uid \in Users, email \in {PlainEmail, DottedEmail} : ProviderSignUp(uid, email)
    \/ \E body \in LoginBodies : LoginArrives(body)
    \/ \E id \in 1..MaxAuthCalls : LoginFind(id)
    \/ \E id \in 1..MaxAuthCalls : LoginCreate(id)
    \/ \E id \in 1..MaxAuthCalls : LoginSave(id)
    \/ \E id \in 1..MaxAuthCalls : EndCall(id)

SpecLogins == Init /\ [][NextLogins]_vars

\* ------------------------------------------- claims: logins and registration

\* The number of User records of an identity
RecordsOf(us, uid) == Cardinality({i \in 1..Len(us) : us[i].firebaseUid = uid})

\* C29. When two login requests with valid matching tokens for the same
\* identity, which has no User record yet, run concurrently (both look the
\* record up before either creates it), both answer 200 and exactly one User
\* record of the identity exists afterwards. With logins alone, a login that
\* found no record and is answered when there is one has run alongside the
\* login that created it.
C29_ConcurrentLogins ==
    [][\A id \in 1..MaxAuthCalls :
         ( /\ Answering(id)
           /\ id \in DOMAIN calls
           /\ calls[id].op = "login"
           /\ calls[id].pc = "create" )
         => /\ calls'[id].resp.status = 200
            /\ RecordsOf(users', calls[id].uid) = 1]_vars

\* C30. Register is all-or-nothing across the identity provider and the user
\* store: after a register request that does not answer 201 no account that
\* the request created at the identity provider remains, and after one that
\* answers 201 both the account and the User record exist.
C30_AllOrNothing ==
    [][\A id \in 1..MaxAuthCalls :
         (Answering(id) /\ calls'[id].op = "register") =>
            IF calls'[id].resp.status = 201
            THEN /\ calls'[id].uid \in DOMAIN accounts'
                 /\ RecordsOf(users', calls'[id].uid) = 1
            ELSE calls'[id].uid \notin DOMAIN accounts']_vars

====
